---- MODULE Spec2Model ----
(***************************************************************************)
(* A model of the request-signing and dispatch core of the AliExpress API  *)
(* client: the signer (sdk/api/base.py sign), the request descriptor and   *)
(* dispatcher (RestApi), the request helper (helpers/requests.py           *)
(* api_request) and the service layer that owns the credentials.           *)
(*                                                                         *)
(* Representation of Python values:                                        *)
(*   - a str is a tuple of one-character strings, so that concatenation,   *)
(*     comparison and substring tests are computed, not assumed;           *)
(*   - a parameter value is a one-field record whose field name is its     *)
(*     Python type: [str |-> s], [int |-> n], [none |-> TRUE];             *)
(*   - a dict is the tuple of its <<key, value>> items in insertion order; *)
(*   - a decoded JSON value is a one-field record [jdict |-> ...],         *)
(*     [jstr |-> ...], [jint |-> ...], [jnull |-> TRUE], [jlist |-> ...].  *)
(***************************************************************************)
EXTENDS Integers, Sequences, FiniteSets, TLC

(***************************************************************************)
(* Strings                                                                 *)
(***************************************************************************)

\* The printable ASCII characters in byte order, from code 32 to code 126
\* (the grave accent, code 96, is written by name).
AsciiPrintable ==
    << " ", "!", "\"", "#", "$", "%", "&", "'", "(", ")", "*", "+", ",", "-",
       ".", "/", "0", "1", "2", "3", "4", "5", "6", "7", "8", "9", ":", ";",
       "<", "=", ">", "?", "@", "A", "B", "C", "D", "E", "F", "G", "H", "I",
       "J", "K", "L", "M", "N", "O", "P", "Q", "R", "S", "T", "U", "V", "W",
       "X", "Y", "Z", "[", "\\", "]", "^", "_", "GRAVE", "a", "b", "c", "d", "e",
       "f", "g", "h", "i", "j", "k", "l", "m", "n", "o", "p", "q", "r", "s",
       "t", "u", "v", "w", "x", "y", "z", "{", "|", "}", "~" >>

\* Position of every printable character in AsciiPrintable.
AsciiIndex ==
    [c \in {AsciiPrintable[i] : i \in 1..Len(AsciiPrintable)} |->
        CHOOSE i \in 1..Len(AsciiPrintable) : AsciiPrintable[i] = c]

\* ord(c): the code point of a character (equal to its UTF-8 byte for ASCII).
ord(c) == AsciiIndex[c] + 31

\* s.encode("utf-8"): the bytes object that encodes s, kept symbolic; two
\* encodings are equal exactly when the strings are.
encode(s) == [utf8 |-> s]

\* Python's str < str: lexicographic comparison by code point; From compares
\* from position i on, the earlier positions being equal.
StrLess(a, b) ==
    LET RECURSIVE From(_)
        From(i) ==
            IF i > Len(b) THEN FALSE
            ELSE IF i > Len(a) THEN TRUE
            ELSE IF ord(a[i]) < ord(b[i]) THEN TRUE
            ELSE IF ord(a[i]) > ord(b[i]) THEN FALSE
            ELSE From(i + 1)
    IN  From(1)

\* s.lower() for ASCII text
lower(s) ==
    [i \in DOMAIN s |->
        IF ord(s[i]) \in 65..90 THEN AsciiPrintable[ord(s[i]) + 1] ELSE s[i]]

\* s.startswith(p)
startswith(s, p) == Len(p) <= Len(s) /\ SubSeq(s, 1, Len(p)) = p

\* str(n) for a non-negative int: its decimal digits.
RECURSIVE IntToStr(_)
IntToStr(n) ==
    LET Digits == <<"0", "1", "2", "3", "4", "5", "6", "7", "8", "9">>
    IN  IF n < 10 THEN <<Digits[n + 1]>>
        ELSE IntToStr(n \div 10) \o <<Digits[(n % 10) + 1]>>

(***************************************************************************)
(* Parameter values and "%s" formatting                                    *)
(***************************************************************************)

StrVal(s) == [str |-> s]
IntVal(n) == [int |-> n]
None == [none |-> TRUE]

IsNone(v) == DOMAIN v = {"none"}

\* A bytes object, and FileItem(filename, content).
BytesVal(b) == [bytes |-> b]
FileItem(filename, content) ==
    [fileitem |-> [filename |-> filename, content |-> content]]

\* if value: for a str argument or None
NonEmpty(value) == ~IsNone(value) /\ value # StrVal(<<>>)

\* "%s" % v
PyStr(v) ==
    IF DOMAIN v = {"str"} THEN v.str
    ELSE IF DOMAIN v = {"int"} THEN IntToStr(v.int)
    ELSE <<"N", "o", "n", "e">>

(***************************************************************************)
(* dict: the tuple of <<key, value>> items in insertion order              *)
(***************************************************************************)

\* list(d.keys())
keys(d) == [i \in 1..Len(d) |-> d[i][1]]

\* key in d
HasKey(d, k) == \E i \in 1..Len(d) : d[i][1] = k

\* d[key]
GetItem(d, k) == d[CHOOSE i \in 1..Len(d) : d[i][1] = k][2]

\* d[key] = value: replaces in place, or appends a new item at the end.
SetItem(d, k, v) ==
    IF HasKey(d, k)
    THEN [i \in 1..Len(d) |-> IF d[i][1] = k THEN <<k, v>> ELSE d[i]]
    ELSE Append(d, <<k, v>>)

\* del d[key]
DelItem(d, k) == SelectSeq(d, LAMBDA it : it[1] # k)

\* d.update(other)
RECURSIVE update(_, _)
update(d, other) ==
    IF other = <<>> THEN d
    ELSE update(SetItem(d, Head(other)[1], Head(other)[2]), Tail(other))

\* The contents of a dict regardless of insertion order.
Contents(d) == {d[i] : i \in 1..Len(d)}

(***************************************************************************)
(* Signer: sdk/api/base.py sign                                            *)
(***************************************************************************)

\* A signer that forgets to sort: the keys stay in insertion order.
sorted_insertion_order(ks) == ks

\* sorted(parameters.keys()): ascending by code point, by insertion of each
\* key into the ascending list of the keys before it.
RECURSIVE sorted(_)
sorted(ks) ==
    LET RECURSIVE InsertSorted(_, _)
        InsertSorted(k, s) ==
            IF s = <<>> THEN <<k>>
            ELSE IF StrLess(k, Head(s)) THEN <<k>> \o s
            ELSE <<Head(s)>> \o InsertSorted(k, Tail(s))
    IN  IF ks = <<>> THEN <<>>
        ELSE InsertSorted(ks[Len(ks)], sorted(SubSeq(ks, 1, Len(ks) - 1)))

\* "".join("%s%s" % (key, parameters[key]) for key in sorted_keys)
RECURSIVE join_key_value(_, _)
join_key_value(sorted_keys, parameters) ==
    IF sorted_keys = <<>> THEN <<>>
    ELSE Head(sorted_keys) \o PyStr(GetItem(parameters, Head(sorted_keys)))
         \o join_key_value(Tail(sorted_keys), parameters)

\* hmac.new(key, msg, digestmod=hashlib.sha256): the digest is kept symbolic,
\* two digests are equal exactly when key and message are equal.
hmac_new(key, msg) == [digestmod |-> "sha256", key |-> key, msg |-> msg]

\* h.hexdigest().upper()
hexdigest_upper(h) == [hexdigest |-> h, upper |-> TRUE]

\* A signer that prepends the endpoint name unconditionally.
sign_always_prefixed(secret, api, parameters) ==
    hexdigest_upper(hmac_new(encode(secret),
        encode(api \o join_key_value(sorted(keys(parameters)), parameters))))

sign(secret, api, parameters) ==
    LET sorted_keys == sorted(keys(parameters))
        parameters_str ==
            IF \E i \in 1..Len(api) : api[i] = "/"
            THEN api \o join_key_value(sorted_keys, parameters)
            ELSE join_key_value(sorted_keys, parameters)
    IN  hexdigest_upper(hmac_new(encode(secret), encode(parameters_str)))

(***************************************************************************)
(* Constants of sdk/api/base.py                                            *)
(***************************************************************************)

\* The names of the system parameters, the SDK version and the path, as
\* the module defines them.
Sdk ==
    [SYSTEM_GENERATE_VERSION |-> <<"i", "o", "p", "-", "s", "d", "k", "-",
             "p", "y", "t", "h", "o", "n", "-", "2", "0", "2", "2", "0",
             "6", "0", "9">>,
     P_APPKEY |-> <<"a", "p", "p", "_", "k", "e", "y">>,
     P_API |-> <<"m", "e", "t", "h", "o", "d">>,
     P_ACCESS_TOKEN |-> <<"a", "c", "c", "e", "s", "s", "_", "t", "o", "k",
             "e", "n">>,
     P_FORMAT |-> <<"f", "o", "r", "m", "a", "t">>,
     P_TIMESTAMP |-> <<"t", "i", "m", "e", "s", "t", "a", "m", "p">>,
     P_SIGN |-> <<"s", "i", "g", "n">>,
     P_SIGN_METHOD |-> <<"s", "i", "g", "n", "_", "m", "e", "t", "h", "o",
             "d">>,
     P_PARTNER_ID |-> <<"p", "a", "r", "t", "n", "e", "r", "_", "i", "d">>,
     N_REST |-> <<"/", "s", "y", "n", "c">>]

(***************************************************************************)
(* Attribute names and literals of RestApi                                 *)
(***************************************************************************)

DefaultDomain ==
    <<"a", "p", "i", "-", "s", "g", ".", "a", "l", "i", "e", "x", "p", "r",
    "e", "s", "s", ".", "c", "o", "m">>

\* The name-mangled private attributes RestApi.__init__ assigns.
PrivateAttr ==
    [domain |-> <<"_", "R", "e", "s", "t", "A", "p", "i", "_", "_", "d", "o",
            "m", "a", "i", "n">>,
     port |-> <<"_", "R", "e", "s", "t", "A", "p", "i", "_", "_", "p", "o",
            "r", "t">>,
     httpmethod |-> <<"_", "R", "e", "s", "t", "A", "p", "i", "_", "_", "h",
            "t", "t", "p", "m", "e", "t", "h", "o", "d">>,
     app_key |-> <<"_", "R", "e", "s", "t", "A", "p", "i", "_", "_", "a", "p",
            "p", "_", "k", "e", "y">>,
     secret |-> <<"_", "R", "e", "s", "t", "A", "p", "i", "_", "_", "s", "e",
            "c", "r", "e", "t">>]

\* String literals of the source.
Text ==
    [private_prefix |-> <<"_", "R", "e", "s", "t", "A", "p", "i", "_", "_">>,
     dunder |-> <<"_", "_">>,
     underscore |-> <<"_">>,
     json |-> <<"j", "s", "o", "n">>,
     sha256 |-> <<"s", "h", "a", "2", "5", "6">>,
     POST |-> <<"P", "O", "S", "T">>,
     https |-> <<"h", "t", "t", "p", "s">>,
     http |-> <<"h", "t", "t", "p">>,
     colon_slashes |-> <<":", "/", "/">>]


(***************************************************************************)
(* Request descriptors: sdk/api/rest                                       *)
(***************************************************************************)

\* The attributes DsDropshpperAddRequest declares in __init__.
DsDropshpperAdd ==
    [app_name |-> <<"a", "p", "p", "_", "n", "a", "m", "e">>,
     country |-> <<"c", "o", "u", "n", "t", "r", "y">>,
     email |-> <<"e", "m", "a", "i", "l">>,
     locale |-> <<"l", "o", "c", "a", "l", "e">>,
     mobile |-> <<"m", "o", "b", "i", "l", "e">>,
     platform |-> <<"p", "l", "a", "t", "f", "o", "r", "m">>,
     app_signature |-> <<"a", "p", "p", "_", "s", "i", "g", "n", "a", "t",
            "u", "r", "e">>]

\* The attributes AliexpressDsFreightQueryRequest declares in __init__, and the wire name
\* getTranslateParas gives.
DsFreightQuery ==
    [query_delivery_req |-> <<"q", "u", "e", "r", "y", "_", "d", "e", "l",
            "i", "v", "e", "r", "y", "_", "r", "e", "q">>,
     locale |-> <<"l", "o", "c", "a", "l", "e">>,
     app_signature |-> <<"a", "p", "p", "_", "s", "i", "g", "n", "a", "t",
            "u", "r", "e">>,
     queryDeliveryReq |-> <<"q", "u", "e", "r", "y", "D", "e", "l", "i", "v",
            "e", "r", "y", "R", "e", "q">>]

\* The attributes AliexpressDsImageSearchV2Request declares in __init__.
DsImageSearchV2 ==
    [limit |-> <<"l", "i", "m", "i", "t">>,
     image_file_bytes |-> <<"i", "m", "a", "g", "e", "_", "f", "i", "l", "e",
            "_", "b", "y", "t", "e", "s">>,
     sort |-> <<"s", "o", "r", "t">>,
     target_currency |-> <<"t", "a", "r", "g", "e", "t", "_", "c", "u", "r",
            "r", "e", "n", "c", "y">>,
     target_language |-> <<"t", "a", "r", "g", "e", "t", "_", "l", "a", "n",
            "g", "u", "a", "g", "e">>,
     page_size |-> <<"p", "a", "g", "e", "_", "s", "i", "z", "e">>,
     page_index |-> <<"p", "a", "g", "e", "_", "i", "n", "d", "e", "x">>,
     search_type |-> <<"s", "e", "a", "r", "c", "h", "_", "t", "y", "p", "e">>]

\* The attributes AliexpressDsTextSearchRequest declares in __init__.
DsTextSearch ==
    [app_signature |-> <<"a", "p", "p", "_", "s", "i", "g", "n", "a", "t", "u", "r",
            "e">>,
     keyWord |-> <<"k", "e", "y", "W", "o", "r", "d">>,
     local |-> <<"l", "o", "c", "a", "l">>,
     countryCode |-> <<"c", "o", "u", "n", "t", "r", "y", "C", "o", "d", "e">>,
     categoryId |-> <<"c", "a", "t", "e", "g", "o", "r", "y", "I", "d">>,
     sortBy |-> <<"s", "o", "r", "t", "B", "y">>,
     pageSize |-> <<"p", "a", "g", "e", "S", "i", "z", "e">>,
     pageIndex |-> <<"p", "a", "g", "e", "I", "n", "d", "e", "x">>,
     currency |-> <<"c", "u", "r", "r", "e", "n", "c", "y">>,
     searchExtend |-> <<"s", "e", "a", "r", "c", "h", "E", "x", "t", "e", "n", "d">>]

\* The attributes AliexpressLogisticsBuyerFreightCalculateRequest declares in
\* __init__.
LogisticsBuyerFreightCalculate ==
    [app_signature |-> <<"a", "p", "p", "_", "s", "i", "g", "n", "a", "t", "u", "r",
            "e">>,
     country_code |-> <<"c", "o", "u", "n", "t", "r", "y", "_", "c", "o", "d", "e">>,
     locale |-> <<"l", "o", "c", "a", "l", "e">>,
     product_list |-> <<"p", "r", "o", "d", "u", "c", "t", "_", "l", "i", "s", "t">>,
     web_site |-> <<"w", "e", "b", "_", "s", "i", "t", "e">>]

\* The attributes of AliexpressAffiliateCategoryGetRequest (app_signature
\* alone) and AliexpressAffiliateProductdetailGetRequest, by the keyword
\* arguments services/common.py prepares them with.
Affiliate ==
    [app_signature |-> <<"a", "p", "p", "_", "s", "i", "g", "n", "a", "t", "u", "r",
            "e">>,
     country |-> <<"c", "o", "u", "n", "t", "r", "y">>,
     fields |-> <<"f", "i", "e", "l", "d", "s">>,
     product_ids |-> <<"p", "r", "o", "d", "u", "c", "t", "_", "i", "d", "s">>,
     target_currency |-> <<"t", "a", "r", "g", "e", "t", "_", "c", "u", "r", "r", "e",
            "n", "c", "y">>,
     target_language |-> <<"t", "a", "r", "g", "e", "t", "_", "l", "a", "n", "g", "u",
            "a", "g", "e">>,
     tracking_id |-> <<"t", "r", "a", "c", "k", "i", "n", "g", "_", "i", "d">>]

\* The descriptor classes of the model.
RequestClasses ==
    {"DsDropshpperAddRequest", "AliexpressDsFreightQueryRequest",
     "AliexpressDsImageSearchV2Request"}

\* The attributes a descriptor's __init__ sets to None, in order.
ClassFields(cls) ==
    IF cls = "DsDropshpperAddRequest"
    THEN <<DsDropshpperAdd.app_name, DsDropshpperAdd.country,
           DsDropshpperAdd.email, DsDropshpperAdd.locale,
           DsDropshpperAdd.mobile, DsDropshpperAdd.platform,
           DsDropshpperAdd.app_signature>>
    ELSE IF cls = "AliexpressDsFreightQueryRequest"
    THEN <<DsFreightQuery.query_delivery_req, DsFreightQuery.locale,
           DsFreightQuery.app_signature>>
    ELSE IF cls = "AliexpressDsTextSearchRequest"
    THEN <<DsTextSearch.app_signature, DsTextSearch.keyWord,
           DsTextSearch.local, DsTextSearch.countryCode,
           DsTextSearch.categoryId, DsTextSearch.sortBy,
           DsTextSearch.pageSize, DsTextSearch.pageIndex,
           DsTextSearch.currency, DsTextSearch.searchExtend>>
    ELSE IF cls = "AliexpressLogisticsBuyerFreightCalculateRequest"
    THEN <<LogisticsBuyerFreightCalculate.app_signature,
           LogisticsBuyerFreightCalculate.country_code,
           LogisticsBuyerFreightCalculate.locale,
           LogisticsBuyerFreightCalculate.product_list,
           LogisticsBuyerFreightCalculate.web_site>>
    ELSE IF cls = "AliexpressAffiliateCategoryGetRequest"
    THEN <<Affiliate.app_signature>>
    ELSE IF cls = "AliexpressAffiliateProductdetailGetRequest"
    THEN <<Affiliate.app_signature, Affiliate.country, Affiliate.fields,
           Affiliate.product_ids, Affiliate.target_currency,
           Affiliate.target_language, Affiliate.tracking_id>>
    ELSE <<DsImageSearchV2.limit, DsImageSearchV2.image_file_bytes,
           DsImageSearchV2.sort, DsImageSearchV2.target_currency,
           DsImageSearchV2.target_language, DsImageSearchV2.page_size,
           DsImageSearchV2.page_index, DsImageSearchV2.search_type>>

\* The port a descriptor's __init__ passes to RestApi.__init__ by default.
RequestDefaultPort == 80

getapiname(self) ==
    IF self.cls = "DsDropshpperAddRequest"
    THEN \* 'aliexpress.ds.dropshipper.add'
         <<"a", "l", "i", "e", "x", "p", "r", "e", "s", "s", ".", "d", "s",
           ".", "d", "r", "o", "p", "s", "h", "i", "p", "p", "e", "r", ".",
           "a", "d", "d">>
    ELSE IF self.cls = "AliexpressDsFreightQueryRequest"
    THEN \* 'aliexpress.ds.freight.query'
         <<"a", "l", "i", "e", "x", "p", "r", "e", "s", "s", ".", "d", "s",
           ".", "f", "r", "e", "i", "g", "h", "t", ".", "q", "u", "e", "r",
           "y">>
    ELSE IF self.cls = "AliexpressDsTextSearchRequest"
    THEN \* 'aliexpress.ds.text.search'
         <<"a", "l", "i", "e", "x", "p", "r", "e", "s", "s", ".", "d",
           "s", ".", "t", "e", "x", "t", ".", "s", "e", "a", "r", "c", "h">>
    ELSE IF self.cls = "AliexpressLogisticsBuyerFreightCalculateRequest"
    THEN \* 'aliexpress.logistics.buyer.freight.calculate'
         <<"a", "l", "i", "e", "x", "p", "r", "e", "s", "s", ".", "l",
           "o", "g", "i", "s", "t", "i", "c", "s", ".", "b", "u", "y", "e",
           "r", ".", "f", "r", "e", "i", "g", "h", "t", ".", "c", "a", "l",
           "c", "u", "l", "a", "t", "e">>
    ELSE IF self.cls = "AliexpressAffiliateCategoryGetRequest"
    THEN \* 'aliexpress.affiliate.category.get'
         <<"a", "l", "i", "e", "x", "p", "r", "e", "s", "s", ".", "a",
           "f", "f", "i", "l", "i", "a", "t", "e", ".", "c", "a", "t", "e",
           "g", "o", "r", "y", ".", "g", "e", "t">>
    ELSE IF self.cls = "AliexpressAffiliateProductdetailGetRequest"
    THEN \* 'aliexpress.affiliate.productdetail.get'
         <<"a", "l", "i", "e", "x", "p", "r", "e", "s", "s", ".", "a",
           "f", "f", "i", "l", "i", "a", "t", "e", ".", "p", "r", "o", "d",
           "u", "c", "t", "d", "e", "t", "a", "i", "l", ".", "g", "e", "t">>
    ELSE \* 'aliexpress.ds.image.searchV2'
         <<"a", "l", "i", "e", "x", "p", "r", "e", "s", "s", ".", "d", "s",
           ".", "i", "m", "a", "g", "e", ".", "s", "e", "a", "r", "c", "h",
           "V", "2">>

\* AliexpressDsImageSearchV2Request overrides RestApi.getMultipartParas.
getMultipartParas(self) ==
    IF self.cls = "AliexpressDsImageSearchV2Request"
    THEN <<DsImageSearchV2.image_file_bytes>>
    ELSE <<>>

getTranslateParas(self) ==
    IF self.cls = "AliexpressDsFreightQueryRequest"
    THEN << <<DsFreightQuery.query_delivery_req,
              DsFreightQuery.queryDeliveryReq>> >>
    ELSE <<>>

(***************************************************************************)
(* RestApi: sdk/api/base.py                                                *)
(***************************************************************************)

HttpsPort == 443

\* RestApi.__init__: the instance __dict__ after the base constructor; the
\* credentials are copied from the default app info if there is one.
RestApi_init(domain, port, appinfo) ==
    << <<PrivateAttr.domain, StrVal(domain)>>, <<PrivateAttr.port, IntVal(port)>>,
       <<PrivateAttr.httpmethod, StrVal(Text.POST)>> >>
    \o (IF IsNone(appinfo) THEN <<>>
        ELSE << <<PrivateAttr.app_key, StrVal(appinfo.appkey)>>,
                <<PrivateAttr.secret, StrVal(appinfo.secret)>> >>)

\* XxxRequest.__init__(): the base constructor, then every field set to None.
Request_init(cls, appinfo) ==
    [cls |-> cls,
     dict |-> RestApi_init(DefaultDomain, RequestDefaultPort, appinfo)
              \o [i \in 1..Len(ClassFields(cls)) |-> <<ClassFields(cls)[i], None>>]]

\* hasattr(self, name), for instance attributes
hasattr(self, name) == HasKey(self.dict, name)

\* setattr(self, name, value)
setattr(self, name, value) == [self EXCEPT !.dict = SetItem(self.dict, name, value)]

\* The first loop of getApplicationParameters over the items of __dict__.
RECURSIVE CollectParameters(_, _, _)
CollectParameters(self, items, application_parameter) ==
    IF items = <<>> THEN application_parameter
    ELSE LET key == Head(items)[1]
             value == Head(items)[2]
         IN  CollectParameters(self, Tail(items),
               IF /\ ~startswith(key, Text.dunder)
                  /\ \A i \in DOMAIN getMultipartParas(self) :
                        getMultipartParas(self)[i] # key
                  /\ ~startswith(key, Text.private_prefix)
                  /\ ~IsNone(value)
               THEN IF startswith(key, Text.underscore)
                    THEN SetItem(application_parameter, Tail(key), value)
                    ELSE SetItem(application_parameter, key, value)
               ELSE application_parameter)

\* The second loop: every key of the translation table is renamed.
RECURSIVE TranslateParameters(_, _, _)
TranslateParameters(key_list, translate_parameter, application_parameter) ==
    IF key_list = <<>> THEN application_parameter
    ELSE LET key == Head(key_list)
         IN  TranslateParameters(Tail(key_list), translate_parameter,
               IF HasKey(translate_parameter, key)
               THEN DelItem(SetItem(application_parameter,
                                    GetItem(translate_parameter, key),
                                    GetItem(application_parameter, key)), key)
               ELSE application_parameter)

\* A descriptor that sends every field under its internal name.
getApplicationParameters_untranslated(self) ==
    CollectParameters(self, self.dict, <<>>)

getApplicationParameters(self) ==
    LET application_parameter == CollectParameters(self, self.dict, <<>>)
    IN  TranslateParameters(keys(application_parameter), getTranslateParas(self),
                            application_parameter)

(***************************************************************************)
(* Decoded JSON values, HTTP outcomes, exceptions                          *)
(***************************************************************************)

JStr(s) == [jstr |-> s]
JInt(n) == [jint |-> n]
JBool(b) == [jbool |-> b]
JNull == [jnull |-> TRUE]
JList(l) == [jlist |-> l]
JDict(f) == [jdict |-> f]

\* The keys of an empty dict.
NoKeys == [k \in {} |-> JNull]

IsJDict(v) == DOMAIN v = {"jdict"}
IsJList(v) == DOMAIN v = {"jlist"}
IsJNull(v) == DOMAIN v = {"jnull"}

\* d.get(key, default) on a decoded JSON object
JGet(d, key, default) == IF key \in DOMAIN d.jdict THEN d.jdict[key] ELSE default

\* What "key in obj" does on a decoded JSON value that is not a str: a key
\* test on a dict, an element test on a list, a TypeError on anything else.
JContains(obj, key) ==
    IF IsJDict(obj) THEN IF key \in DOMAIN obj.jdict THEN "True" ELSE "False"
    ELSE IF IsJList(obj)
         THEN IF \E i \in DOMAIN obj.jlist : obj.jlist[i] = JStr(key)
              THEN "True" ELSE "False"
    ELSE "TypeError"

\* A call either returns a value or raises an exception.
Return(v) == [returned |-> v]
Raise(e) == [raised |-> e]
IsReturn(o) == DOMAIN o = {"returned"}
IsRaise(o) == DOMAIN o = {"raised"}

\* class RequestException(Exception), raised with "HTTP {status}: {text}"
RequestException(status_code, text) ==
    [type |-> "RequestException", status_code |-> status_code, text |-> text]

\* class TopException(Exception) with the attributes getResponse assigns
TopException(errorcode, message, subcode, submsg, application_host, service_host) ==
    [type |-> "TopException", errorcode |-> errorcode, message |-> message,
     subcode |-> subcode, submsg |-> submsg,
     application_host |-> application_host, service_host |-> service_host]

\* Exceptions of the requests library and of the interpreter.
BuiltinException(type) == [type |-> type]

\* What http_requests.post does: it raises requests.exceptions.Timeout or
\* requests.exceptions.ConnectionError, or returns a response.
NetTimeout == [kind |-> "Timeout"]
NetConnectionError == [kind |-> "ConnectionError"]
NetResponse(status_code, body, headers) ==
    [kind |-> "response", status_code |-> status_code, body |-> body,
     headers |-> headers]

\* A response body is the text of a JSON value, or text that is not JSON.
JsonBody(j) == [json |-> j]
TextBody(s) == [text |-> s]
IsJsonBody(b) == DOMAIN b = {"json"}

\* response.headers.get(name, "")
HeaderGet(headers, name) ==
    IF name \in DOMAIN headers THEN JStr(headers[name]) ELSE JStr("")

\* The clock counts 1/ClockPerMs of a millisecond.
ClockPerMs == 2

\* A dispatcher that computes the timestamp once and keeps it.
Timestamp_cached(clock) == IntToStr(0)

\* Line 167: str(int(time.time() * 1000)), int() truncates to milliseconds.
Timestamp(clock) == IntToStr(clock \div ClockPerMs)

\* A dispatcher that accepts every 2xx status.
IsHttpError_non2xx(status_code) == status_code < 200 \/ status_code > 299

\* Line 219: response.status_code != 200
IsHttpError(status_code) == status_code # 200

\* A dispatcher that forgets the sub-code of the provider's error.
ErrorFromResponse_no_subcode(err, headers) ==
    TopException(JGet(err, "code", JNull), JGet(err, "msg", JNull),
                 JNull, JGet(err, "sub_msg", JNull),
                 HeaderGet(headers, "Application-Host"),
                 HeaderGet(headers, "Location-Host"))

\* Lines 232-239: the TopException built from error_response and the headers.
ErrorFromResponse(err, headers) ==
    TopException(JGet(err, "code", JNull), JGet(err, "msg", JNull),
                 JGet(err, "sub_code", JNull), JGet(err, "sub_msg", JNull),
                 HeaderGet(headers, "Application-Host"),
                 HeaderGet(headers, "Location-Host"))

\* Lines 218-242 of getResponse: what becomes of the HTTP response.
HandleResponse(response) ==
    IF IsHttpError(response.status_code)
    THEN Raise(RequestException(response.status_code, response.body))
    ELSE IF ~IsJsonBody(response.body)
    THEN Raise(BuiltinException("requests.exceptions.JSONDecodeError"))
    ELSE LET jsonobj == response.body.json
             found == JContains(jsonobj, "error_response")
         IN  IF found = "TypeError" THEN Raise(BuiltinException("TypeError"))
             ELSE IF found = "False" THEN Return(jsonobj)
             ELSE LET err == jsonobj.jdict["error_response"]
                  IN  IF ~IsJDict(err)
                      THEN Raise(BuiltinException("AttributeError"))
                      ELSE Raise(ErrorFromResponse(err, response.headers))

\* The record of one call of getResponse: whether the POST was issued, what
\* was signed and sent, and how the call ended.
NotPosted(outcome) ==
    [posted |-> FALSE, url |-> <<>>, secret |-> <<>>, sign_parameter |-> <<>>,
     params |-> <<>>, data |-> <<>>, files |-> <<>>, outcome |-> outcome]

\* The files dict of a multipart request.
RECURSIVE MultipartFiles(_, _)
MultipartFiles(self, multipart) ==
    IF multipart = <<>> THEN <<>>
    ELSE LET key == Head(multipart)
             fileitem == IF hasattr(self, key) THEN GetItem(self.dict, key) ELSE None
             rest == MultipartFiles(self, Tail(multipart))
         IN  IF DOMAIN fileitem = {"fileitem"}
             THEN << <<key, <<fileitem.fileitem.filename,
                              fileitem.fileitem.content>> >> >> \o rest
             ELSE rest

\* A dispatcher that puts the application parameters into the query too.
SystemParameters_with_application(self, authrize, timestamp) ==
    update(<< <<Sdk.P_FORMAT, StrVal(Text.json)>>,
              <<Sdk.P_APPKEY, GetItem(self.dict, PrivateAttr.app_key)>>,
              <<Sdk.P_SIGN_METHOD, StrVal(Text.sha256)>>,
              <<Sdk.P_TIMESTAMP, StrVal(timestamp)>>,
              <<Sdk.P_PARTNER_ID, StrVal(Sdk.SYSTEM_GENERATE_VERSION)>>,
              <<Sdk.P_API, StrVal(getapiname(self))>> >>
           \o (IF IsNone(authrize) THEN <<>>
               ELSE << <<Sdk.P_ACCESS_TOKEN, authrize>> >>),
           getApplicationParameters(self))

\* Lines 169-180: the system parameters, with the token if one is given.
SystemParameters(self, authrize, timestamp) ==
    LET sys_parameters ==
            << <<Sdk.P_FORMAT, StrVal(Text.json)>>,
               <<Sdk.P_APPKEY, GetItem(self.dict, PrivateAttr.app_key)>>,
               <<Sdk.P_SIGN_METHOD, StrVal(Text.sha256)>>,
               <<Sdk.P_TIMESTAMP, StrVal(timestamp)>>,
               <<Sdk.P_PARTNER_ID, StrVal(Sdk.SYSTEM_GENERATE_VERSION)>>,
               <<Sdk.P_API, StrVal(getapiname(self))>> >>
    IN  IF IsNone(authrize) THEN sys_parameters
        ELSE SetItem(sys_parameters, Sdk.P_ACCESS_TOKEN, authrize)

\* A dispatcher that leaves the token out of the signed parameters.
SignParameter_without_token(sys_parameters, application_parameter) ==
    update(DelItem(sys_parameters, Sdk.P_ACCESS_TOKEN), application_parameter)

\* Lines 186-187: sign_parameter = sys_parameters.copy(), then update.
SignParameter(sys_parameters, application_parameter) ==
    update(sys_parameters, application_parameter)

\* RestApi.getResponse(authrize, timeout) called when the clock reads clock
\* and the network answers net.
getResponse(self, authrize, clock, net) ==
    LET protocol ==
            IF GetItem(self.dict, PrivateAttr.port) = IntVal(HttpsPort)
            THEN Text.https ELSE Text.http
        base_url == protocol \o Text.colon_slashes
                    \o GetItem(self.dict, PrivateAttr.domain).str \o Sdk.N_REST
        timestamp == Timestamp(clock)
    IN  IF ~hasattr(self, PrivateAttr.app_key)
        THEN NotPosted(Raise(BuiltinException("AttributeError")))
        ELSE
        LET with_token == SystemParameters(self, authrize, timestamp)
            application_parameter == getApplicationParameters(self)
            sign_parameter == SignParameter(with_token, application_parameter)
            secret == GetItem(self.dict, PrivateAttr.secret).str
            sys_parameters ==
                SetItem(with_token, Sdk.P_SIGN,
                        [hex |-> sign(secret, getapiname(self), sign_parameter)])
            files == MultipartFiles(self, getMultipartParas(self))
        IN  [posted |-> TRUE, url |-> base_url, secret |-> secret,
             sign_parameter |-> sign_parameter, params |-> sys_parameters,
             data |-> application_parameter, files |-> files,
             outcome |->
                IF net.kind = "Timeout"
                THEN Raise(BuiltinException("requests.exceptions.Timeout"))
                ELSE IF net.kind = "ConnectionError"
                THEN Raise(BuiltinException("requests.exceptions.ConnectionError"))
                ELSE HandleResponse(net)]

(***************************************************************************)
(* Models: models/base.py and the dataclasses of models/                   *)
(***************************************************************************)

\* The type of a dataclass field: a class, typing.List[...], typing.Dict[...],
\* typing.Optional[...] or a forward reference written as a string.
TClass(name) == [class |-> name]
TList(arg) == [origin |-> "list", arg |-> arg]
TOptional(arg) == [origin |-> "Union", arg |-> arg]

\* The default of a dataclass field: a value, a default_factory, or none.
Value(v) == [value |-> v]
Factory(name) == [factory |-> name]

Field(name, type, default) == [name |-> name, type |-> type, default |-> default]

\* models/affiliate_link.py: the fields of each dataclass, as name, annotation and
\* default.
models_affiliate_link(cls) ==
    CASE cls = "AffiliateLink" ->
        <<Field("promotion_link", TClass("str"), Value(JStr(""))),
          Field("source_value", TClass("str"), Value(JStr("")))>>

\* models/category.py: the fields of each dataclass, as name, annotation and
\* default.
models_category(cls) ==
    CASE cls = "Category" ->
        <<Field("category_id", TClass("int"), Value(JInt(0))),
          Field("category_name", TClass("str"), Value(JStr("")))>>
      [] cls = "ChildCategory" ->
        <<Field("category_id", TClass("int"), Value(JInt(0))),
          Field("category_name", TClass("str"), Value(JStr(""))),
          Field("parent_category_id", TClass("int"), Value(JInt(0)))>>

\* models/dropshipping.py: the fields of each dataclass, as name, annotation and
\* default.
models_dropshipping(cls) ==
    CASE cls = "AeItemBaseInfoDto" ->
        <<Field("subject", TClass("str"), Value(JStr(""))),
          Field("detail", TClass("str"), Value(JStr(""))),
          Field("mobile_detail", TClass("str"), Value(JStr(""))),
          Field("product_id", TClass("str"), Value(JStr(""))),
          Field("category_id", TClass("str"), Value(JStr(""))),
          Field("product_status_type", TClass("str"), Value(JStr(""))),
          Field("currency_code", TClass("str"), Value(JStr(""))),
          Field("avg_evaluation_rating", TClass("str"), Value(JStr(""))),
          Field("evaluation_count", TClass("str"), Value(JStr(""))),
          Field("sales_count", TClass("str"), Value(JStr(""))),
          Field("gmt_create", TClass("str"), Value(JStr(""))),
          Field("gmt_modified", TClass("str"), Value(JStr(""))),
          Field("owner_member_seq_long", TClass("str"), Value(JStr(""))),
          Field("category_sequence", TOptional(TClass("str")), Value(JNull)),
          Field("separated_listing", TOptional(TClass("str")), Value(JNull))>>
      [] cls = "ItemProperty" ->
        <<Field("attr_name", TClass("str"), Value(JStr(""))),
          Field("attr_value", TClass("str"), Value(JStr(""))),
          Field("attr_name_id", TOptional(TClass("str")), Value(JNull)),
          Field("attr_value_id", TOptional(TClass("str")), Value(JNull)),
          Field("attr_value_unit", TOptional(TClass("str")), Value(JNull)),
          Field("attr_value_start", TOptional(TClass("str")), Value(JNull)),
          Field("attr_value_end", TOptional(TClass("str")), Value(JNull))>>
      [] cls = "AeSkuPropertyDto" ->
        <<Field("sku_property_id", TClass("str"), Value(JStr(""))),
          Field("sku_property_name", TClass("str"), Value(JStr(""))),
          Field("property_value_id", TClass("str"), Value(JStr(""))),
          Field("property_value_definition_name", TClass("str"), Value(JStr(""))),
          Field("sku_property_value", TClass("str"), Value(JStr(""))),
          Field("sku_image", TOptional(TClass("str")), Value(JNull))>>
      [] cls = "WholesalePriceTier" ->
        <<Field("min_quantity", TClass("str"), Value(JStr(""))),
          Field("wholesale_price", TClass("str"), Value(JStr(""))),
          Field("discount", TClass("str"), Value(JStr("")))>>
      [] cls = "AeItemSkuInfoDto" ->
        <<Field("sku_id", TClass("str"), Value(JStr(""))),
          Field("id", TClass("str"), Value(JStr(""))),
          Field("sku_price", TClass("str"), Value(JStr(""))),
          Field("offer_sale_price", TClass("str"), Value(JStr(""))),
          Field("offer_bulk_sale_price", TClass("str"), Value(JStr(""))),
          Field("sku_available_stock", TClass("str"), Value(JStr(""))),
          Field("sku_bulk_order", TClass("str"), Value(JStr(""))),
          Field("currency_code", TClass("str"), Value(JStr(""))),
          Field("ean_code", TOptional(TClass("str")), Value(JNull)),
          Field("barcode", TOptional(TClass("str")), Value(JNull)),
          Field("price_include_tax", TOptional(TClass("str")), Value(JNull)),
          Field("tax_amount", TOptional(TClass("str")), Value(JNull)),
          Field("tax_currency_code", TOptional(TClass("str")), Value(JNull)),
          Field("estimated_import_charges", TOptional(TClass("str")), Value(JNull)),
          Field("limit_strategy", TOptional(TClass("str")), Value(JNull)),
          Field("buy_amount_limit_set_by_promotion", TOptional(TClass("str")), Value(JNull)),
          Field("sku_attr", TOptional(TClass("str")), Value(JNull)),
          Field("ae_sku_property_dtos", TList(TClass("AeSkuPropertyDto")), Factory("list")),
          Field("wholesale_price_tiers", TList(TClass("WholesalePriceTier")), Factory("list"))>>
      [] cls = "LogisticsInfoDto" ->
        <<Field("delivery_time", TClass("str"), Value(JStr(""))),
          Field("ship_to_country", TClass("str"), Value(JStr("")))>>
      [] cls = "PackageInfoDto" ->
        <<Field("package_length", TClass("str"), Value(JStr(""))),
          Field("package_width", TClass("str"), Value(JStr(""))),
          Field("package_height", TClass("str"), Value(JStr(""))),
          Field("gross_weight", TClass("str"), Value(JStr(""))),
          Field("package_type", TClass("str"), Value(JStr(""))),
          Field("product_unit", TClass("str"), Value(JStr(""))),
          Field("base_unit", TClass("str"), Value(JStr("")))>>
      [] cls = "AeVideoDto" ->
        <<Field("media_id", TClass("str"), Value(JStr(""))),
          Field("media_type", TClass("str"), Value(JStr(""))),
          Field("media_status", TClass("str"), Value(JStr(""))),
          Field("media_url", TClass("str"), Value(JStr(""))),
          Field("poster_url", TClass("str"), Value(JStr(""))),
          Field("ali_member_id", TClass("str"), Value(JStr("")))>>
      [] cls = "AeMultimediaInfoDto" ->
        <<Field("image_urls", TClass("str"), Value(JStr(""))),
          Field("ae_video_dtos", TList(TClass("AeVideoDto")), Factory("list"))>>
      [] cls = "StoreInfo" ->
        <<Field("store_id", TClass("str"), Value(JStr(""))),
          Field("store_name", TClass("str"), Value(JStr(""))),
          Field("store_country_code", TClass("str"), Value(JStr(""))),
          Field("communication_rating", TClass("str"), Value(JStr(""))),
          Field("shipping_speed_rating", TClass("str"), Value(JStr(""))),
          Field("item_as_described_rating", TClass("str"), Value(JStr("")))>>
      [] cls = "ManufacturerInfo" ->
        <<Field("name", TClass("str"), Value(JStr(""))),
          Field("address", TClass("str"), Value(JStr(""))),
          Field("phone", TClass("str"), Value(JStr(""))),
          Field("phone_prefix", TClass("str"), Value(JStr(""))),
          Field("email", TClass("str"), Value(JStr(""))),
          Field("country_name", TClass("str"), Value(JStr("")))>>
      [] cls = "ProductIdConverterResult" ->
        <<Field("main_product_id", TClass("str"), Value(JStr(""))),
          Field("sub_product_id", [origin |-> "dict"], Factory("dict"))>>
      [] cls = "DsProductGetResult" ->
        <<Field("ae_item_base_info_dto", TClass("AeItemBaseInfoDto"), Factory("AeItemBaseInfoDto")),
          Field("ae_multimedia_info_dto", TClass("AeMultimediaInfoDto"), Factory("AeMultimediaInfoDto")),
          Field("ae_item_sku_info_dtos", TList(TClass("AeItemSkuInfoDto")), Factory("list")),
          Field("package_info_dto", TClass("PackageInfoDto"), Factory("PackageInfoDto")),
          Field("logistics_info_dto", TClass("LogisticsInfoDto"), Factory("LogisticsInfoDto")),
          Field("ae_store_info", TClass("StoreInfo"), Factory("StoreInfo")),
          Field("ae_item_properties", TList(TClass("ItemProperty")), Factory("list")),
          Field("manufacturer_info", TOptional(TClass("ManufacturerInfo")), Value(JNull)),
          Field("product_id_converter_result", TOptional(TClass("ProductIdConverterResult")), Value(JNull)),
          Field("has_whole_sale", TOptional(TClass("str")), Value(JNull))>>
      [] cls = "DsProductGetResponse" ->
        <<Field("result", TClass("DsProductGetResult"), Factory("DsProductGetResult")),
          Field("code", TClass("str"), Value(JStr(""))),
          Field("rsp_code", TClass("str"), Value(JStr(""))),
          Field("rsp_msg", TClass("str"), Value(JStr(""))),
          Field("request_id", TClass("str"), Value(JStr("")))>>
      [] cls = "DsCategory" ->
        <<Field("category_id", TClass("int"), Value(JInt(0))),
          Field("category_name", TClass("str"), Value(JStr(""))),
          Field("parent_category_id", TOptional(TClass("int")), Value(JNull)),
          Field("children", TList([forward |-> "DsCategory"]), Factory("list"))>>
      [] cls = "DsCategoryGetResponse" ->
        <<Field("categories", TList(TClass("DsCategory")), Factory("list"))>>
      [] cls = "DsOrderProduct" ->
        <<Field("product_id", TClass("str"), Value(JStr(""))),
          Field("product_name", TClass("str"), Value(JStr(""))),
          Field("sku_id", TClass("str"), Value(JStr(""))),
          Field("sku_info", TClass("str"), Value(JStr(""))),
          Field("product_count", TClass("int"), Value(JInt(0))),
          Field("product_price", TClass("str"), Value(JStr(""))),
          Field("product_image_url", TClass("str"), Value(JStr("")))>>
      [] cls = "DsOrder" ->
        <<Field("order_id", TClass("str"), Value(JStr(""))),
          Field("order_status", TClass("str"), Value(JStr(""))),
          Field("gmt_create", TClass("str"), Value(JStr(""))),
          Field("gmt_modified", TClass("str"), Value(JStr(""))),
          Field("total_amount", TClass("str"), Value(JStr(""))),
          Field("currency", TClass("str"), Value(JStr(""))),
          Field("product_count", TClass("int"), Value(JInt(0))),
          Field("order_products", TList(TClass("DsOrderProduct")), Factory("list"))>>
      [] cls = "DsOrderListResponse" ->
        <<Field("total_record_count", TClass("int"), Value(JInt(0))),
          Field("current_record_count", TClass("int"), Value(JInt(0))),
          Field("orders", TList(TClass("DsOrder")), Factory("list"))>>
      [] cls = "DsCommissionOrder" ->
        <<Field("order_id", TClass("str"), Value(JStr(""))),
          Field("commission_status", TClass("str"), Value(JStr(""))),
          Field("commission_rate", TClass("str"), Value(JStr(""))),
          Field("commission_amount", TClass("str"), Value(JStr(""))),
          Field("currency", TClass("str"), Value(JStr(""))),
          Field("order_time", TClass("str"), Value(JStr(""))),
          Field("affiliate_order_id", TOptional(TClass("str")), Value(JNull))>>
      [] cls = "DsCommissionOrderListResponse" ->
        <<Field("total_record_count", TClass("int"), Value(JInt(0))),
          Field("current_record_count", TClass("int"), Value(JInt(0))),
          Field("commission_orders", TList(TClass("DsCommissionOrder")), Factory("list"))>>
      [] cls = "OrderLogisticsInfo" ->
        <<Field("logistics_number", TClass("str"), Value(JStr(""))),
          Field("logistics_company_name", TClass("str"), Value(JStr(""))),
          Field("logistics_status", TClass("str"), Value(JStr("")))>>
      [] cls = "DsTradeOrderGetResponse" ->
        <<Field("order_id", TClass("str"), Value(JStr(""))),
          Field("order_status", TClass("str"), Value(JStr(""))),
          Field("gmt_create", TClass("str"), Value(JStr(""))),
          Field("gmt_modified", TClass("str"), Value(JStr(""))),
          Field("total_amount", TClass("str"), Value(JStr(""))),
          Field("currency", TClass("str"), Value(JStr(""))),
          Field("product_count", TClass("int"), Value(JInt(0))),
          Field("order_products", TList(TClass("DsOrderProduct")), Factory("list")),
          Field("order_logistics_info", TList(TClass("OrderLogisticsInfo")), Factory("list"))>>
      [] cls = "DsSearchProduct" ->
        <<Field("itemId", TClass("str"), Value(JStr(""))),
          Field("title", TClass("str"), Value(JStr(""))),
          Field("itemMainPic", TClass("str"), Value(JStr(""))),
          Field("itemUrl", TClass("str"), Value(JStr(""))),
          Field("salePrice", TClass("str"), Value(JStr(""))),
          Field("salePriceCurrency", TClass("str"), Value(JStr(""))),
          Field("originalPrice", TOptional(TClass("str")), Value(JNull)),
          Field("originalPriceCurrency", TOptional(TClass("str")), Value(JNull)),
          Field("discount", TOptional(TClass("str")), Value(JNull)),
          Field("evaluateRate", TOptional(TClass("str")), Value(JNull)),
          Field("orders", TOptional(TClass("str")), Value(JNull)),
          Field("score", TOptional(TClass("str")), Value(JNull)),
          Field("videoUrl", TOptional(TClass("str")), Value(JNull))>>
      [] cls = "DsTextSearchResult" ->
        <<Field("totalCount", TClass("int"), Value(JInt(0))),
          Field("pageIndex", TClass("int"), Value(JInt(0))),
          Field("pageSize", TClass("int"), Value(JInt(0))),
          Field("products", TList(TClass("DsSearchProduct")), Factory("list"))>>
      [] cls = "DsTextSearchResponse" ->
        <<Field("data", TOptional(TClass("DsTextSearchResult")), Value(JNull)),
          Field("code", TOptional(TClass("str")), Value(JNull)),
          Field("msg", TOptional(TClass("str")), Value(JNull))>>

\* models/hotproducts.py: the fields of each dataclass, as name, annotation and
\* default.
models_hotproducts(cls) ==
    CASE cls = "HotProductsResponse" ->
        <<Field("current_page_no", TClass("int"), Value(JInt(0))),
          Field("current_record_count", TClass("int"), Value(JInt(0))),
          Field("total_record_count", TClass("int"), Value(JInt(0))),
          Field("products", TList(TClass("Product")), Factory("list"))>>

\* models/oauth.py: the fields of each dataclass, as name, annotation and
\* default.
models_oauth(cls) ==
    CASE cls = "TokenResponse" ->
        <<Field("access_token", TOptional(TClass("str")), Value(JNull)),
          Field("refresh_token", TOptional(TClass("str")), Value(JNull)),
          Field("expires_in", TOptional(TClass("int")), Value(JNull)),
          Field("refresh_expires_in", TOptional(TClass("int")), Value(JNull)),
          Field("expire_time", TOptional(TClass("int")), Value(JNull)),
          Field("refresh_token_valid_time", TOptional(TClass("int")), Value(JNull)),
          Field("account_id", TOptional(TClass("str")), Value(JNull)),
          Field("seller_id", TOptional(TClass("str")), Value(JNull)),
          Field("user_id", TOptional(TClass("str")), Value(JNull)),
          Field("user_nick", TOptional(TClass("str")), Value(JNull)),
          Field("havana_id", TOptional(TClass("str")), Value(JNull)),
          Field("account_platform", TOptional(TClass("str")), Value(JNull)),
          Field("account", TOptional(TClass("str")), Value(JNull)),
          Field("sp", TOptional(TClass("str")), Value(JNull)),
          Field("locale", TOptional(TClass("str")), Value(JNull))>>

\* models/product.py: the fields of each dataclass, as name, annotation and
\* default.
models_product(cls) ==
    CASE cls = "Product" ->
        <<Field("app_sale_price", TClass("str"), Value(JStr(""))),
          Field("app_sale_price_currency", TClass("str"), Value(JStr(""))),
          Field("commission_rate", TClass("str"), Value(JStr(""))),
          Field("discount", TClass("str"), Value(JStr(""))),
          Field("evaluate_rate", TClass("str"), Value(JStr(""))),
          Field("first_level_category_id", TClass("int"), Value(JInt(0))),
          Field("first_level_category_name", TClass("str"), Value(JStr(""))),
          Field("lastest_volume", TClass("int"), Value(JInt(0))),
          Field("hot_product_commission_rate", TClass("str"), Value(JStr(""))),
          Field("original_price", TClass("str"), Value(JStr(""))),
          Field("original_price_currency", TClass("str"), Value(JStr(""))),
          Field("product_detail_url", TClass("str"), Value(JStr(""))),
          Field("product_id", TClass("int"), Value(JInt(0))),
          Field("product_main_image_url", TClass("str"), Value(JStr(""))),
          Field("product_small_image_urls", TList(TClass("str")), Factory("list")),
          Field("product_title", TClass("str"), Value(JStr(""))),
          Field("product_video_url", TClass("str"), Value(JStr(""))),
          Field("promotion_link", TClass("str"), Value(JStr(""))),
          Field("relevant_market_commission_rate", TClass("str"), Value(JStr(""))),
          Field("sale_price", TClass("str"), Value(JStr(""))),
          Field("sale_price_currency", TClass("str"), Value(JStr(""))),
          Field("second_level_category_id", TClass("int"), Value(JInt(0))),
          Field("second_level_category_name", TClass("str"), Value(JStr(""))),
          Field("shop_id", TClass("int"), Value(JInt(0))),
          Field("shop_url", TClass("str"), Value(JStr(""))),
          Field("target_app_sale_price", TClass("str"), Value(JStr(""))),
          Field("target_app_sale_price_currency", TClass("str"), Value(JStr(""))),
          Field("target_original_price", TClass("str"), Value(JStr(""))),
          Field("target_original_price_currency", TClass("str"), Value(JStr(""))),
          Field("target_sale_price", TClass("str"), Value(JStr(""))),
          Field("target_sale_price_currency", TClass("str"), Value(JStr("")))>>
      [] cls = "ProductsResponse" ->
        <<Field("current_page_no", TClass("int"), Value(JInt(0))),
          Field("current_record_count", TClass("int"), Value(JInt(0))),
          Field("total_record_count", TClass("int"), Value(JInt(0))),
          Field("products", TList(TClass("Product")), Factory("list"))>>

\* The dataclasses that derive from BaseModel.
ModelClasses ==
    {"AffiliateLink", "Category", "ChildCategory", "AeItemBaseInfoDto",
     "ItemProperty", "AeSkuPropertyDto", "WholesalePriceTier",
     "AeItemSkuInfoDto", "LogisticsInfoDto", "PackageInfoDto", "AeVideoDto",
     "AeMultimediaInfoDto", "StoreInfo", "ManufacturerInfo",
     "ProductIdConverterResult", "DsProductGetResult", "DsProductGetResponse",
     "DsCategory", "DsCategoryGetResponse", "DsOrderProduct", "DsOrder",
     "DsOrderListResponse", "DsCommissionOrder",
     "DsCommissionOrderListResponse", "OrderLogisticsInfo",
     "DsTradeOrderGetResponse", "DsSearchProduct", "DsTextSearchResult",
     "DsTextSearchResponse", "HotProductsResponse", "TokenResponse",
     "Product", "ProductsResponse"}

\* cls.__dataclass_fields__
dataclass_fields(cls) ==
    CASE cls \in {"AffiliateLink"} -> models_affiliate_link(cls)
      [] cls \in {"Category", "ChildCategory"} -> models_category(cls)
      [] cls \in {"AeItemBaseInfoDto", "ItemProperty", "AeSkuPropertyDto",
                   "WholesalePriceTier", "AeItemSkuInfoDto",
                   "LogisticsInfoDto", "PackageInfoDto", "AeVideoDto",
                   "AeMultimediaInfoDto", "StoreInfo", "ManufacturerInfo",
                   "ProductIdConverterResult", "DsProductGetResult",
                   "DsProductGetResponse", "DsCategory",
                   "DsCategoryGetResponse", "DsOrderProduct", "DsOrder",
                   "DsOrderListResponse", "DsCommissionOrder",
                   "DsCommissionOrderListResponse", "OrderLogisticsInfo",
                   "DsTradeOrderGetResponse", "DsSearchProduct",
                   "DsTextSearchResult", "DsTextSearchResponse"} ->
             models_dropshipping(cls)
      [] cls \in {"HotProductsResponse"} -> models_hotproducts(cls)
      [] cls \in {"TokenResponse"} -> models_oauth(cls)
      [] cls \in {"Product", "ProductsResponse"} -> models_product(cls)

FieldNames(cls) ==
    LET Names(fs) == {fs[i].name : i \in DOMAIN fs}
    IN  Names(dataclass_fields(cls))

FieldOf(cls, name) ==
    LET Named(fs) == fs[CHOOSE i \in DOMAIN fs : fs[i].name = name]
    IN  Named(dataclass_fields(cls))

\* isinstance(t, type) and issubclass(t, BaseModel)
IsModelType(t) == DOMAIN t = {"class"} /\ t.class \in ModelClasses

\* hasattr(t, "__origin__") and t.__origin__ is list
IsListType(t) == "origin" \in DOMAIN t /\ t.origin = "list"

\* cls(**kwargs) of a dataclass: a TypeError for an unexpected keyword or a
\* missing field without default, else the instance.  An exception raised
\* while an argument was computed is raised instead.
RECURSIVE Construct(_, _)
Construct(cls, kwargs) ==
    LET Default(d) ==
            IF "value" \in DOMAIN d THEN d.value
            ELSE IF d.factory = "list" THEN JList(<<>>)
            ELSE IF d.factory = "dict" THEN JDict(NoKeys)
            ELSE Construct(d.factory, NoKeys)
        Call(fields, defaults) ==
            IF \/ ~(DOMAIN kwargs \subseteq fields)
               \/ \E f \in fields \ DOMAIN kwargs :
                     "required" \in DOMAIN defaults[f]
            THEN Raise(BuiltinException("TypeError"))
            ELSE [cls |-> cls,
                  attrs |-> [f \in fields |->
                               IF f \in DOMAIN kwargs THEN kwargs[f]
                               ELSE Default(defaults[f])]]
    IN  IF \E k \in DOMAIN kwargs : IsRaise(kwargs[k])
        THEN kwargs[CHOOSE k \in DOMAIN kwargs : IsRaise(kwargs[k])]
        ELSE Call(FieldNames(cls),
                  [f \in FieldNames(cls) |-> FieldOf(cls, f).default])

\* bool(data) of a decoded JSON value
Truthy(data) ==
    IF IsJDict(data) THEN DOMAIN data.jdict # {}
    ELSE IF IsJList(data) THEN data.jlist # <<>>
    ELSE IF IsJNull(data) THEN FALSE
    ELSE IF DOMAIN data = {"jstr"} THEN data.jstr # ""
    ELSE IF DOMAIN data = {"jint"} THEN data.jint # 0
    ELSE data.jbool

RECURSIVE from_dict(_, _)
RECURSIVE BindValue(_, _)

\* Lines 23-36: the value stored for a key that names a field; a list of
\* bound elements is the list, or the exception one of them raised.
BindValue(field_type, v) ==
    IF IsListType(field_type)
    THEN IF IsModelType(field_type.arg)
         THEN IF IsJList(v)
              THEN LET items == [i \in DOMAIN v.jlist |->
                                   from_dict(field_type.arg.class, v.jlist[i])]
                   IN  IF \E i \in DOMAIN items : IsRaise(items[i])
                       THEN items[CHOOSE i \in DOMAIN items : IsRaise(items[i])]
                       ELSE JList(items)
              ELSE JList(<<>>)
         ELSE v
    ELSE IF IsModelType(field_type)
    THEN IF IsJDict(v) THEN from_dict(field_type.class, v) ELSE JNull
    ELSE v

\* A binder that passes every key of the payload to the constructor.
from_dict_every_key(cls, data) ==
    IF ~Truthy(data) \/ ~IsJDict(data)
    THEN Construct(cls, NoKeys)
    ELSE Construct(cls, data.jdict)

\* BaseModel.from_dict(cls, data)
from_dict(cls, data) ==
    IF ~Truthy(data) \/ ~IsJDict(data)
    THEN Construct(cls, NoKeys)
    ELSE Construct(cls,
             [k \in DOMAIN data.jdict \cap FieldNames(cls) |->
                 BindValue(FieldOf(cls, k).type, data.jdict[k])])

(***************************************************************************)
(* api_request: helpers/requests.py                                        *)
(***************************************************************************)

\* ApiRequestException(arg) raised "from" the original error
ApiRequestException(arg, cause) ==
    [type |-> "ApiRequestException", args |-> arg, cause |-> cause]

\* ApiRequestResponseException(arg)
ApiRequestResponseException(arg) ==
    [type |-> "ApiRequestResponseException", args |-> arg]

\* Lines 41-45: every exception of getResponse becomes ApiRequestException,
\* built from error.message if there is one, else from str(error); of the
\* exceptions getResponse can raise, only TopException has a message.
WrapDispatchError(error) ==
    IF error.type = "TopException"
    THEN ApiRequestException([message |-> error.message], error)
    ELSE ApiRequestException([str |-> error], error)

\* code not in ('0', 0, '200', 200, 'success'), compared with ==
NotInSuccessSet(code) ==
    ~ \/ code \in {JStr("0"), JStr("200"), JStr("success")}
      \/ code \in {JInt(0), JInt(200)}
      \/ code = JBool(FALSE)

\* json.loads(json.dumps(obj), object_hook=lambda d: SimpleNamespace(**d))
RECURSIVE ToNamespace(_)
ToNamespace(obj) ==
    IF IsJDict(obj)
    THEN [ns |-> [k \in DOMAIN obj.jdict |-> ToNamespace(obj.jdict[k])]]
    ELSE IF IsJList(obj)
    THEN JList([i \in DOMAIN obj.jlist |-> ToNamespace(obj.jlist[i])])
    ELSE obj

\* An extraction that looks for result before resp_result.
ResultObj_result_first(inner_response) ==
    IF "result" \in DOMAIN inner_response.jdict
    THEN inner_response.jdict["result"]
    ELSE IF "resp_result" \in DOMAIN inner_response.jdict
    THEN inner_response.jdict["resp_result"]
    ELSE IF "data" \in DOMAIN inner_response.jdict
    THEN inner_response.jdict["data"]
    ELSE inner_response

\* Lines 73-80: the result object of the inner response.
ResultObj(inner_response) ==
    IF "resp_result" \in DOMAIN inner_response.jdict
    THEN inner_response.jdict["resp_result"]
    ELSE IF "result" \in DOMAIN inner_response.jdict
    THEN inner_response.jdict["result"]
    ELSE IF "data" \in DOMAIN inner_response.jdict
    THEN inner_response.jdict["data"]
    ELSE inner_response

\* A flattening that descends as long as there is a nested result.
RECURSIVE Flatten_every_level(_)
Flatten_every_level(result_obj) ==
    IF IsJDict(result_obj) /\ "result" \in DOMAIN result_obj.jdict
    THEN Flatten_every_level(result_obj.jdict["result"])
    ELSE result_obj

\* Lines 83-84: one nested result is flattened.
Flatten(result_obj) ==
    IF IsJDict(result_obj) /\ "result" \in DOMAIN result_obj.jdict
    THEN result_obj.jdict["result"]
    ELSE result_obj

\* Lines 58-94 for a response that holds response_name; model_class is a
\* class of models/ or None.
UnwrapInner(inner_response, model_class) ==
    IF ~IsJDict(inner_response)
    THEN Raise(ApiRequestResponseException(
                   [str |-> BuiltinException("AttributeError")]))
    ELSE
    LET \* Lines 61-64: inner_response.get('resp_code',
        \* inner_response.get('rsp_code', inner_response.get('code')));
        \* dict.get falls back only for an absent key.
        inner_code ==
            JGet(inner_response, "resp_code",
                 JGet(inner_response, "rsp_code",
                      JGet(inner_response, "code", JNull)))
        \* Lines 66-69: the message of the error, found the same way.
        inner_msg ==
            JGet(inner_response, "resp_msg",
                 JGet(inner_response, "rsp_msg",
                      JGet(inner_response, "msg", JStr("Unknown error"))))
    IN  IF ~IsJNull(inner_code) /\ NotInSuccessSet(inner_code)
        THEN Raise(ApiRequestResponseException(
                 [fmt |-> "API Error {inner_code}: {inner_msg}",
                  code |-> inner_code, msg |-> inner_msg]))
        ELSE LET result_obj == Flatten(ResultObj(inner_response))
             IN  IF ~IsNone(model_class) /\ IsModelType(model_class)
                 THEN LET Bound(bound) ==
                              IF IsRaise(bound)
                              THEN Raise(ApiRequestResponseException(
                                             [str |-> bound.raised]))
                              ELSE Return(bound)
                      IN  Bound(from_dict(model_class.class, result_obj))
                 ELSE Return(ToNamespace(result_obj))

\* A handling of the missing key that never looks at a top-level code.
MissingKey_shape_only(response, response_name) ==
    Raise(ApiRequestResponseException(
        [fmt |-> "Response key '{response_name}' not found. Available: {keys}",
         key |-> response_name,
         available |-> DOMAIN response.jdict]))

\* Lines 48-56: response_name is not a key of the response.
MissingKey(response, response_name) ==
    IF /\ "code" \in DOMAIN response.jdict
       /\ NotInSuccessSet(response.jdict["code"])
    THEN Raise(ApiRequestResponseException(
             [fmt |-> "API Error {code}: {msg}",
              code |-> response.jdict["code"],
              msg |-> JGet(response, "msg", JStr("Unknown error"))]))
    ELSE Raise(ApiRequestResponseException(
             [fmt |-> "Response key '{response_name}' not found. Available: {keys}",
              key |-> response_name,
              available |-> DOMAIN response.jdict]))

\* An interpretation outside the try block: what a response that is no
\* object raises reaches the caller as it is.
Unwrap_unguarded(response, response_name, model_class) ==
    IF ~IsJDict(response)
    THEN Raise(BuiltinException(IF IsJList(response) THEN "AttributeError"
                                ELSE "TypeError"))
    ELSE IF response_name \notin DOMAIN response.jdict
    THEN MissingKey(response, response_name)
    ELSE UnwrapInner(response.jdict[response_name], model_class)

\* Lines 47-100: the interpretation of the decoded response.
Unwrap(response, response_name, model_class) ==
    IF ~IsJDict(response)
    THEN Raise(ApiRequestResponseException(
                   [str |-> BuiltinException(
                       IF IsJList(response) THEN "AttributeError"
                       ELSE "TypeError")]))
    ELSE IF response_name \notin DOMAIN response.jdict
    THEN MissingKey(response, response_name)
    ELSE UnwrapInner(response.jdict[response_name], model_class)

\* An api_request that dispatches a second time when the first dispatch
\* failed.
api_request_retry(request, response_name, model_class, session, clock, net) ==
    LET After(dispatch) ==
            [dispatches |-> IF IsRaise(dispatch.outcome)
                            THEN <<dispatch, dispatch>> ELSE <<dispatch>>,
             outcome |->
                IF IsRaise(dispatch.outcome)
                THEN Raise(WrapDispatchError(dispatch.outcome.raised))
                ELSE Unwrap(dispatch.outcome.returned, response_name,
                            model_class)]
    IN  After(getResponse(request, session, clock, net))

\* api_request(request, response_name, model_class, session): the calls of
\* getResponse it made and what the caller gets.
api_request(request, response_name, model_class, session, clock, net) ==
    LET After(dispatch) ==
            [dispatches |-> <<dispatch>>,
             outcome |->
                IF IsRaise(dispatch.outcome)
                THEN Raise(WrapDispatchError(dispatch.outcome.raised))
                ELSE Unwrap(dispatch.outcome.returned, response_name,
                            model_class)]
    IN  After(getResponse(request, session, clock, net))

(***************************************************************************)
(* Services: services/base.py, services/dropshipping.py                    *)
(***************************************************************************)

\* setDefaultAppInfo(appkey, secret): the process-wide default app info.
setDefaultAppInfo(appkey, secret) == [appkey |-> appkey, secret |-> secret]

\* BaseService.__init__(key, secret, token=token): the attributes of the
\* service, with the default language, currency and tracking id.
BaseService_init(key, secret, token) ==
    [_key |-> key, _secret |-> secret,
     _language |-> StrVal(<<"E", "N">>),
     _currency |-> StrVal(<<"U", "S", "D">>),
     _tracking_id |-> None, _token |-> token]

\* BaseService._prepare_request(request, **params): every parameter that the
\* request has as an attribute and that is not None is set.
RECURSIVE _prepare_request(_, _)
_prepare_request(request, params) ==
    IF params = <<>> THEN request
    ELSE LET key == Head(params)[1]
             value == Head(params)[2]
         IN  _prepare_request(
                 IF hasattr(request, key) /\ ~IsNone(value)
                 THEN setattr(request, key, value)
                 ELSE request,
                 Tail(params))

(***************************************************************************)
(* OAuth token requests: services/oauth.py and mixins/oauth.py             *)
(***************************************************************************)

\* String literals of _oauth_request.
OAuth ==
    [refresh_url |-> <<"h", "t", "t", "p", "s", ":", "/", "/", "a", "p", "i", "-",
            "s", "g", ".", "a", "l", "i", "e", "x", "p", "r", "e", "s",
            "s", ".", "c", "o", "m", "/", "r", "e", "s", "t", "/", "a",
            "u", "t", "h", "/", "t", "o", "k", "e", "n", "/", "r", "e",
            "f", "r", "e", "s", "h">>,
     refresh_path |-> <<"/", "a", "u", "t", "h", "/", "t", "o", "k", "e", "n", "/",
            "r", "e", "f", "r", "e", "s", "h">>,
     create_url |-> <<"h", "t", "t", "p", "s", ":", "/", "/", "a", "p", "i", "-",
            "s", "g", ".", "a", "l", "i", "e", "x", "p", "r", "e", "s",
            "s", ".", "c", "o", "m", "/", "r", "e", "s", "t", "/", "a",
            "u", "t", "h", "/", "t", "o", "k", "e", "n", "/", "c", "r",
            "e", "a", "t", "e">>,
     create_path |-> <<"/", "a", "u", "t", "h", "/", "t", "o", "k", "e", "n", "/",
            "c", "r", "e", "a", "t", "e">>,
     refresh_token |-> <<"r", "e", "f", "r", "e", "s", "h", "_", "t", "o", "k", "e",
            "n">>,
     code |-> <<"c", "o", "d", "e">>,
     uuid |-> <<"u", "u", "i", "d">>]

\* A token request that signs the parameters without the path.
oauth_signature_without_path(secret, api_path, params) ==
    hexdigest_upper(hmac_new(encode(secret),
        encode(join_key_value(sorted(keys(params)), params))))

\* Lines 95-108: sorted keys, "".join(f"{k}{params[k]}"), the path in front,
\* HMAC-SHA256 keyed with the secret, upper-case hex digest.
oauth_signature(secret, api_path, params) ==
    LET sorted_keys == sorted(keys(params))
        params_str == join_key_value(sorted_keys, params)
        sign_string == api_path \o params_str
    IN  hexdigest_upper(hmac_new(encode(secret), encode(sign_string)))

\* _oauth_request(code, uuid, refresh_token) called when the clock reads
\* clock and the network answers net; json_error_is_request_exception tells
\* whether the installed requests raises a RequestException from
\* response.json() (2.27 and later) or a plain ValueError.  The result holds
\* the calls of requests.post made and what the caller gets.
_oauth_request(self, code, uuid, refresh_token, clock, net, json_error_is_request_exception) ==
    LET url == IF NonEmpty(refresh_token) THEN OAuth.refresh_url
               ELSE OAuth.create_url
        api_path == IF NonEmpty(refresh_token) THEN OAuth.refresh_path
                    ELSE OAuth.create_path
        params ==
            << <<Sdk.P_APPKEY, StrVal(self._key)>>,
               <<Sdk.P_TIMESTAMP, StrVal(Timestamp(clock))>>,
               <<Sdk.P_SIGN_METHOD, StrVal(Text.sha256)>> >>
            \o (IF NonEmpty(refresh_token)
                THEN << <<OAuth.refresh_token, refresh_token>> >>
                ELSE << <<OAuth.code, code>> >>
                     \o (IF NonEmpty(uuid) THEN << <<OAuth.uuid, uuid>> >>
                         ELSE <<>>))
        signature == oauth_signature(self._secret, api_path, params)
        data == SetItem(params, Sdk.P_SIGN, [hex |-> signature])
        Failed(cause) ==
            Raise(ApiRequestException([oauth_request_failed |-> cause], cause))
        Returned(bound) == IF IsRaise(bound) THEN bound ELSE Return(bound)
        token_data(body) ==
            IF JContains(body, "access_token") = "True" THEN body
            ELSE IF IsJList(body) THEN body
            ELSE IF "token_response" \in DOMAIN body.jdict
                    /\ IsJDict(body.jdict["token_response"])
                 THEN body.jdict["token_response"]
            ELSE IF "result" \in DOMAIN body.jdict
                    /\ IsJDict(body.jdict["result"])
                 THEN body.jdict["result"]
            ELSE IF "data" \in DOMAIN body.jdict
                    /\ IsJDict(body.jdict["data"])
                 THEN body.jdict["data"]
            ELSE body
    IN  [posts |-> << [url |-> url, data |-> data] >>,
         api_path |-> api_path,
         secret |-> self._secret,
         outcome |->
            IF net.kind = "Timeout"
            THEN Failed(BuiltinException("requests.exceptions.Timeout"))
            ELSE IF net.kind = "ConnectionError"
            THEN Failed(BuiltinException("requests.exceptions.ConnectionError"))
            ELSE IF net.status_code >= 400
            THEN Failed(BuiltinException("requests.exceptions.HTTPError"))
            ELSE IF ~IsJsonBody(net.body)
            THEN IF json_error_is_request_exception
                 THEN Failed(BuiltinException(
                                 "requests.exceptions.JSONDecodeError"))
                 ELSE Raise(BuiltinException("ValueError"))
            ELSE LET body == net.body.json
                     found == JContains(body, "error_response")
                 IN  IF found = "TypeError"
                     THEN Raise(BuiltinException("TypeError"))
                     ELSE IF found = "True"
                     THEN IF ~IsJDict(body.jdict["error_response"])
                          THEN Raise(BuiltinException("AttributeError"))
                          ELSE LET error == body.jdict["error_response"]
                               IN  Raise(ApiRequestException(
                                       [code |-> JGet(error, "code", JStr("Unknown")),
                                        msg |-> JGet(error, "msg",
                                                     JStr("Unknown error"))],
                                       None))
                     ELSE Returned(from_dict("TokenResponse", token_data(body)))]

(***************************************************************************)
(* The facade: services/base.py, services/common.py,                       *)
(* services/dropshipping.py                                                *)
(***************************************************************************)

\* CommonService.__init__: the base constructor, then the category cache.
CommonService_init(key, secret, token) ==
    [_key |-> key, _secret |-> secret,
     _language |-> BaseService_init(key, secret, token)._language,
     _currency |-> BaseService_init(key, secret, token)._currency,
     _tracking_id |-> None, _token |-> token, categories |-> None]

\* bool(v) of what a facade method tests: None, an instance of a dataclass of
\* models/ (they define neither __bool__ nor __len__, so it is true), or a
\* decoded JSON value.
bool(v) ==
    IF IsNone(v) THEN FALSE
    ELSE IF "cls" \in DOMAIN v THEN TRUE
    ELSE Truthy(v)

\* BaseService._get_locale(country_code)
_get_locale(self, country_code) ==
    LET \* s.upper() for ASCII text
        upper(s) ==
            [i \in DOMAIN s |->
                IF ord(s[i]) \in 97..122 THEN AsciiPrintable[ord(s[i]) - 63]
                ELSE s[i]]
    IN
    IF NonEmpty(country_code)
    THEN lower(PyStr(self._language)) \o <<"_">> \o upper(country_code.str)
    ELSE lower(PyStr(self._language)) \o <<"_", "U", "S">>

\* filter_parent_categories(categories) and filter_child_categories(
\* categories, parent_category_id) of helpers/categories.py: the selection
\* they make is kept symbolic.
filter_parent_categories(categories) ==
    [filter |-> "parent", categories |-> categories]
filter_child_categories(categories, parent_category_id) ==
    [filter |-> "child", categories |-> categories,
     parent_category_id |-> parent_category_id]

\* A fetch that forgets the cached categories when it fails.
get_categories_forgets_on_failure(self, appinfo, clock, net) ==
    LET request ==
            _prepare_request(
                Request_init("AliexpressAffiliateCategoryGetRequest", appinfo),
                <<>>)
        result == api_request(request,
                              "aliexpress_affiliate_category_get_response",
                              TClass("Category"), None, clock, net)
    IN  IF IsRaise(result.outcome)
        THEN [self |-> [self EXCEPT !.categories = None],
              dispatches |-> result.dispatches, outcome |-> result.outcome]
        ELSE [self |-> [self EXCEPT !.categories = result.outcome.returned],
              dispatches |-> result.dispatches,
              outcome |-> Return(result.outcome.returned)]

\* CommonService.get_categories(): the service afterwards, the dispatches
\* made and what the caller gets.
get_categories(self, appinfo, clock, net) ==
    LET request ==
            _prepare_request(
                Request_init("AliexpressAffiliateCategoryGetRequest", appinfo),
                <<>>)
        After(result) ==
            IF IsRaise(result.outcome)
            THEN [self |-> self, dispatches |-> result.dispatches,
                  outcome |-> result.outcome]
            ELSE IF bool(result.outcome.returned)
            THEN [self |-> [self EXCEPT !.categories = result.outcome.returned],
                  dispatches |-> result.dispatches,
                  outcome |-> Return(result.outcome.returned)]
            ELSE [self |-> self, dispatches |-> result.dispatches,
                  outcome |->
                      Raise(BuiltinException("CategoriesNotFoundException"))]
    IN  CHOOSE after \in
            {After(result) :
                result \in {api_request(request,
                                        "aliexpress_affiliate_category_get_response",
                                        TClass("Category"), None, clock, net)}} :
            TRUE

\* A lookup that fetches the categories whatever the cache holds.
get_parent_categories_always_fetch(self, use_cache, appinfo, clock, net) ==
    LET fetched == get_categories(self, appinfo, clock, net)
    IN  IF IsRaise(fetched.outcome) THEN fetched
        ELSE [fetched EXCEPT !.outcome =
                 Return(filter_parent_categories(fetched.self.categories))]

\* CommonService.get_parent_categories(use_cache)
get_parent_categories(self, use_cache, appinfo, clock, net) ==
    IF ~use_cache \/ ~bool(self.categories)
    THEN CHOOSE after \in
             {IF IsRaise(fetched.outcome) THEN fetched
              ELSE [fetched EXCEPT !.outcome =
                      Return(filter_parent_categories(fetched.self.categories))] :
                 fetched \in {get_categories(self, appinfo, clock, net)}} :
             TRUE
    ELSE [self |-> self, dispatches |-> <<>>,
          outcome |-> Return(filter_parent_categories(self.categories))]

\* CommonService.get_child_categories(parent_category_id, use_cache)
get_child_categories(self, parent_category_id, use_cache, appinfo, clock, net) ==
    IF ~use_cache \/ ~bool(self.categories)
    THEN CHOOSE after \in
             {IF IsRaise(fetched.outcome) THEN fetched
              ELSE [fetched EXCEPT !.outcome =
                      Return(filter_child_categories(fetched.self.categories,
                                                     parent_category_id))] :
                 fetched \in {get_categories(self, appinfo, clock, net)}} :
             TRUE
    ELSE [self |-> self, dispatches |-> <<>>,
          outcome |-> Return(filter_child_categories(self.categories,
                                                     parent_category_id))]

\* CommonService.get_products_details(product_ids, fields, country), with
\* product_ids and fields as the strings get_list_as_string makes of them.
get_products_details(self, product_ids, fields, country, appinfo, clock, net) ==
    LET request ==
            _prepare_request(
                Request_init("AliexpressAffiliateProductdetailGetRequest",
                             appinfo),
                << <<Affiliate.fields, fields>>,
                   <<Affiliate.product_ids, product_ids>>,
                   <<Affiliate.country, country>>,
                   <<Affiliate.target_currency, self._currency>>,
                   <<Affiliate.target_language,
                     StrVal(lower(PyStr(self._language)))>>,
                   <<Affiliate.tracking_id, self._tracking_id>> >>)
        result == api_request(request,
                              "aliexpress_affiliate_productdetail_get_response",
                              TClass("Product"), None, clock, net)
    IN  CHOOSE after \in
            {IF IsRaise(r.outcome) \/ bool(r.outcome.returned) THEN r
             ELSE [r EXCEPT !.outcome =
                      Raise(BuiltinException("ProductsNotFoundException"))] :
                r \in {result}} :
            TRUE

\* DropshippingService.text_search_ds(keywords, country, locale=locale)
text_search_ds(self, keywords, country, locale, appinfo, clock, net) ==
    LET request ==
            _prepare_request(
                Request_init("AliexpressDsTextSearchRequest", appinfo),
                << <<DsTextSearch.categoryId, None>>,
                   <<DsTextSearch.countryCode, country>>,
                   <<DsTextSearch.keyWord, keywords>>,
                   <<DsTextSearch.local,
                     IF NonEmpty(locale) THEN locale
                     ELSE StrVal(_get_locale(self, country))>>,
                   <<DsTextSearch.pageIndex, None>>,
                   <<DsTextSearch.pageSize, None>>,
                   <<DsTextSearch.sortBy, None>>,
                   <<DsTextSearch.currency, self._currency>> >>)
        result == api_request(request, "aliexpress_ds_text_search_response",
                              TClass("DsTextSearchResponse"), self._token,
                              clock, net)
        NotFound == Raise(BuiltinException("ProductsNotFoundException"))
        After(r) ==
            IF IsRaise(r.outcome) THEN r
            ELSE LET response == r.outcome.returned
                     data == response.attrs["data"]
                 IN  [r EXCEPT !.outcome =
                         IF ~bool(response) \/ ~bool(data) THEN NotFound
                         ELSE IF "cls" \notin DOMAIN data
                         THEN \* response.data.totalCount on a dict, list or str
                              Raise(BuiltinException("AttributeError"))
                         ELSE IF DOMAIN data.attrs["totalCount"] # {"jint"}
                         THEN Raise(BuiltinException("TypeError"))
                         ELSE IF data.attrs["totalCount"].jint > 0
                         THEN Return(response) ELSE NotFound]
    IN  CHOOSE after \in {After(r) : r \in {result}} : TRUE

(***************************************************************************)
(* State                                                                   *)
(***************************************************************************)

VARIABLES
    signCalls,      \* the calls of sign made so far, latest last
    defaultAppInfo, \* the process-wide default app info of the sdk package
    services,       \* the service objects constructed, by client
    requests,       \* the descriptors user code holds
    now,            \* the reading of time.time(), in 1/ClockPerMs ms
    calls           \* the records of the latest calls, latest last

vars == <<signCalls, defaultAppInfo, services, requests, now, calls>>

(***************************************************************************)
(* Bounds and inputs                                                       *)
(***************************************************************************)

MaxRequests == 1
MaxClock == 3

\* Two clients of the library, each with its own credentials.
Clients == {1, 2}

ClientKey(c) == IF c = 1 THEN <<"k", "1">> ELSE <<"k", "2">>
ClientSecret(c) == IF c = 1 THEN <<"s", "1">> ELSE <<"s", "2">>

ResponseNameOf(cls) ==
    IF cls = "DsDropshpperAddRequest" THEN "ds_dropshpper_add_response"
    ELSE IF cls = "AliexpressDsFreightQueryRequest"
    THEN "aliexpress_ds_freight_query_response"
    ELSE "aliexpress_ds_image_search_v2_response"

NoHeaders == [h \in {} |-> ""]

HostHeaders ==
    [h \in {"Application-Host", "Location-Host"} |->
        IF h = "Application-Host" THEN "10.0.0.1" ELSE "10.0.0.2"]

\* A successful envelope under the given response key.
SuccessBody(response_name) ==
    JsonBody(JDict(response_name :>
        JDict([resp_code |-> JInt(200), result |-> JDict([a |-> JInt(1)])])))

\* A provider rejection with all four fields.
ErrorBodyFull ==
    JsonBody(JDict([error_response |->
        JDict([code |-> JStr("IncompleteSignature"), msg |-> JStr("bad sign"),
               sub_code |-> JStr("isv.sign"), sub_msg |-> JStr("check secret")])]))

HtmlBody == TextBody("<html>")

\* The bodies of an answer: the rejections, an error_response that is not an
\* object, bodies that are not an object, envelopes, an envelope that reports
\* a provider error code inside the response key, and a top-level code.
Bodies ==
    LET ErrorBodyShort ==
            JsonBody(JDict([error_response |->
                JDict([code |-> JStr("IllegalAccessToken"),
                       msg |-> JStr("bad token")])]))
        ErrorBodyText == JsonBody(JDict([error_response |-> JStr("denied")]))
        NullBody == JsonBody(JNull)
        ListBody == JsonBody(JList(<<>>))
        InnerErrorBody(response_name) ==
            JsonBody(JDict(response_name :>
                JDict([code |-> JStr("15"), msg |-> JStr("boom")])))
    IN  {ErrorBodyFull, ErrorBodyShort, ErrorBodyText, NullBody, ListBody,
         HtmlBody,
         SuccessBody("ds_dropshpper_add_response"),
         InnerErrorBody("ds_dropshpper_add_response"),
         SuccessBody("aliexpress_ds_freight_query_response"),
         JsonBody(JDict([code |-> JStr("500"), msg |-> JStr("down")]))}

\* The outcomes of the HTTP call: a timeout, a connection failure, status 200
\* with every body, and the other statuses with a provider rejection, a
\* successful envelope and a body that is not JSON.
HttpNets ==
    {NetTimeout, NetConnectionError}
    \cup {NetResponse(200, b, NoHeaders) : b \in Bodies}
    \cup {NetResponse(200, ErrorBodyFull, HostHeaders)}
    \cup {NetResponse(s, b, NoHeaders) :
             s \in {201, 500},
             b \in {ErrorBodyFull, SuccessBody("ds_dropshpper_add_response"),
                    HtmlBody}}

\* The outcomes of the HTTP call while the provider is up and accepts.
OkNets ==
    {NetResponse(200, SuccessBody("ds_dropshpper_add_response"), NoHeaders)}

(***************************************************************************)
(* Operations                                                              *)
(***************************************************************************)

\* The latest two dispatches after one more.
Remember(record) ==
    IF calls = <<>> THEN <<record>> ELSE <<calls[Len(calls)], record>>

CallRecord(via, client, req, authrize, net, result) ==
    [via |-> via, client |-> client, req |-> req, authrize |-> authrize,
     clock |-> now, net |-> net, dispatches |-> result.dispatches,
     dispatch |-> IF result.dispatches = <<>> THEN NotPosted(Return(None))
                  ELSE result.dispatches[Len(result.dispatches)],
     outcome |-> result.outcome]

\* BaseService(key, secret, token=token): client c constructs its service.
NewService(c, token) ==
    /\ IsNone(services[c])
    /\ services' = [services EXCEPT
           ![c] = BaseService_init(ClientKey(c), ClientSecret(c), token)]
    /\ defaultAppInfo' = setDefaultAppInfo(ClientKey(c), ClientSecret(c))
    /\ UNCHANGED <<signCalls, requests, now, calls>>

\* User code constructs a descriptor of class cls.
NewRequest(cls) ==
    /\ Len(requests) < MaxRequests
    /\ requests' = Append(requests, Request_init(cls, defaultAppInfo))
    /\ UNCHANGED <<signCalls, defaultAppInfo, services, now, calls>>

\* User code assigns a field of descriptor r.
SetField(r, name, value) ==
    /\ hasattr(requests[r], name)
    /\ GetItem(requests[r].dict, name) # value
    /\ requests' = [requests EXCEPT ![r] = setattr(@, name, value)]
    /\ UNCHANGED <<signCalls, defaultAppInfo, services, now, calls>>

\* User code calls requests[r].getResponse(authrize).
GetResponse(r, authrize, net) ==
    /\ LET dispatch == getResponse(requests[r], authrize, now, net)
       IN  calls' = Remember(
               CallRecord("getResponse", 0, r, authrize, net,
                          [dispatches |-> <<dispatch>>,
                           outcome |-> dispatch.outcome]))
    /\ UNCHANGED <<signCalls, defaultAppInfo, services, requests, now>>

\* User code calls api_request(requests[r], response_name, model_class,
\* session=session).
ApiRequest(r, model_class, session, net) ==
    /\ calls' = Remember(
           CallRecord("api_request", 0, r, session, net,
               api_request(requests[r], ResponseNameOf(requests[r].cls),
                           model_class, session, now, net)))
    /\ UNCHANGED <<signCalls, defaultAppInfo, services, requests, now>>

\* DropshippingService.add_dropshipper(email, country=country) of client c.
AddDropshipper(c, email, country, net) ==
    /\ ~IsNone(services[c])
    /\ LET request ==
               _prepare_request(
                   Request_init("DsDropshpperAddRequest", defaultAppInfo),
                   << <<DsDropshpperAdd.app_name, None>>,
                      <<DsDropshpperAdd.country, country>>,
                      <<DsDropshpperAdd.email, email>>,
                      <<DsDropshpperAdd.locale, None>>,
                      <<DsDropshpperAdd.mobile, None>>,
                      <<DsDropshpperAdd.platform, None>> >>)
       IN  calls' = Remember(
               CallRecord("add_dropshipper", c, 0, None, net,
                   api_request(request, "ds_dropshpper_add_response",
                               None, None, now, net)))
    /\ UNCHANGED <<signCalls, defaultAppInfo, services, requests, now>>

\* Time passes.
Tick ==
    /\ now < MaxClock
    /\ now' = now + 1
    /\ UNCHANGED <<signCalls, defaultAppInfo, services, requests, calls>>

\* Nothing has been constructed yet.
Init ==
    /\ signCalls = <<>>
    /\ defaultAppInfo = None
    /\ services = [c \in Clients |-> None]
    /\ requests = <<>>
    /\ now = 0
    /\ calls = <<>>

\* Clients construct their services, create descriptors and dispatch them.
Next ==
    \/ \E c \in Clients : NewService(c, None)
    \/ \E cls \in RequestClasses : NewRequest(cls)
    \/ \E r \in DOMAIN requests, net \in OkNets : GetResponse(r, None, net)
    \/ \E c \in Clients, e \in {StrVal(<<"a", "@", "b">>)},
          k \in {StrVal(<<"U", "S">>)}, net \in OkNets :
          AddDropshipper(c, e, k, net)

Spec == Init /\ [][Next]_vars

\* Client 1 has constructed its service; user code holds one descriptor of
\* each class.
InitDispatch ==
    /\ signCalls = <<>>
    /\ defaultAppInfo = setDefaultAppInfo(ClientKey(1), ClientSecret(1))
    /\ services = [c \in Clients |->
          IF c = 1 THEN BaseService_init(ClientKey(1), ClientSecret(1), None)
          ELSE None]
    /\ requests =
          <<Request_init("DsDropshpperAddRequest", defaultAppInfo),
            Request_init("AliexpressDsFreightQueryRequest", defaultAppInfo)>>
    /\ now = 0
    /\ calls = <<>>

\* User code sets fields and dispatches, with or without a token, as time
\* passes.
NextDispatch ==
    \/ \E r \in DOMAIN requests,
          f \in {<<DsDropshpperAdd.email, StrVal(<<"a", "@", "b">>)>>,
                 <<DsFreightQuery.query_delivery_req, StrVal(<<"{", "}">>)>>} :
          SetField(r, f[1], f[2])
    \/ \E r \in DOMAIN requests, t \in {None, StrVal(<<"t", "k">>)},
          net \in OkNets :
          GetResponse(r, t, net)
    \/ Tick

SpecDispatch == InitDispatch /\ [][NextDispatch]_vars

\* Every call meets every outcome of the HTTP call.
NextHttp ==
    \/ \E net \in HttpNets : GetResponse(1, None, net)
    \/ \E net \in HttpNets : ApiRequest(1, None, None, net)

SpecHttp == InitDispatch /\ [][NextHttp]_vars

(***************************************************************************)
(* The signer on its own: sign is called on arbitrary inputs               *)
(***************************************************************************)

\* Every dict with distinct keys from ks, in every insertion order.
RECURSIVE DictsOver(_, _)
DictsOver(ks, vs) ==
    {<<>>} \cup
    UNION {{<<<<k, v>>>> \o d : d \in DictsOver(ks \ {k}, vs)} :
             <<k, v>> \in ks \X vs}

\* Keys where one is a prefix of another and the order is decided late.
SignDicts ==
    DictsOver({<<"a">>, <<"a", "b">>, <<"B">>}, {StrVal(<<"b">>), IntVal(10)})

SignCall(secret, api, parameters) ==
    [secret |-> secret, api |-> api, parameters |-> parameters,
     result |-> sign(secret, api, parameters)]

\* The first call of sign.
Sign(secret, api, parameters) ==
    /\ signCalls = <<>>
    /\ signCalls' = <<SignCall(secret, api, parameters)>>
    /\ UNCHANGED <<defaultAppInfo, services, requests, now, calls>>

\* A second call with the same secret and endpoint and any parameters.
SignAgain(parameters) ==
    /\ Len(signCalls) = 1
    /\ signCalls' = Append(signCalls,
           SignCall(signCalls[1].secret, signCalls[1].api, parameters))
    /\ UNCHANGED <<defaultAppInfo, services, requests, now, calls>>

NextSign ==
    \/ \E secret \in {<<"s">>, <<"s", "t">>},
          api \in {<<"a", ".", "b">>, <<"/", "a">>}, parameters \in SignDicts :
          Sign(secret, api, parameters)
    \/ \E parameters \in SignDicts : SignAgain(parameters)

SpecSign == Init /\ [][NextSign]_vars

(***************************************************************************)
(* Properties of the signer                                                *)
(***************************************************************************)

\* Byte-wise lexicographic order, stated directly: x is a proper prefix of y,
\* or they first differ at a position where x holds the smaller byte.
BytesLess(x, y) ==
    \E i \in 1..Len(y) :
        /\ \A j \in 1..(i - 1) : j <= Len(x) /\ x[j] = y[j]
        /\ \/ i = Len(x) + 1
           \/ i <= Len(x) /\ ord(x[i]) < ord(y[i])

\* The keys of d by rank: the key of rank n has exactly n - 1 keys below it.
KeysByRank(d) ==
    LET K == {it[1] : it \in Contents(d)}
        below == [k \in K |-> Cardinality({j \in K : BytesLess(j, k)})]
    IN  [n \in 1..Len(d) |-> CHOOSE k \in K : below[k] = n - 1]

\* key + value of the first n keys of the ranking, with no separators.
RECURSIVE KeyValueText(_, _, _)
KeyValueText(d, ranking, n) ==
    IF n = 0 THEN <<>>
    ELSE KeyValueText(d, ranking, n - 1)
         \o ranking[n] \o PyStr(GetItem(d, ranking[n]))

\* The canonical string of the signature.
Canonical(api, d) ==
    (IF \E i \in DOMAIN api : api[i] = "/" THEN api ELSE <<>>)
    \o KeyValueText(d, KeysByRank(d), Len(d))

\* C3: sign(secret, api, parameters) is the uppercase hex HMAC, keyed by the
\* secret, of the canonical string: key + value over the keys in ascending
\* order with no separators, prefixed by the endpoint name exactly when that
\* name contains "/"; for the empty map it is the HMAC of the prefix alone.
C3_SignIsHmacOfCanonical ==
    \A n \in DOMAIN signCalls :
        LET c == signCalls[n]
        IN  /\ c.result.upper
            /\ c.result.hexdigest.key = encode(c.secret)
            /\ c.result.hexdigest.msg = encode(Canonical(c.api, c.parameters))
            /\ c.parameters = <<>> =>
                  c.result.hexdigest.msg =
                      (IF \E i \in DOMAIN c.api : c.api[i] = "/"
                       THEN encode(c.api) ELSE encode(<<>>))

\* A path-style endpoint signed once with the empty map and once with three
\* keys inserted in descending order.
C3_Witness ==
    /\ Len(signCalls) = 2
    /\ signCalls[1].api = <<"/", "a">>
    /\ signCalls[1].parameters = <<>>
    /\ keys(signCalls[2].parameters) = <<<<"a", "b">>, <<"a">>, <<"B">>>>
    /\ signCalls[2].result.hexdigest.msg # signCalls[1].result.hexdigest.msg

\* C4: the signature does not depend on the insertion order of the keys: two
\* calls with the same secret, the same endpoint and parameter maps of equal
\* contents return the same signature.
C4_SignOrderIndependent ==
    \A m, n \in DOMAIN signCalls :
        /\ signCalls[m].secret = signCalls[n].secret
        /\ signCalls[m].api = signCalls[n].api
        /\ Contents(signCalls[m].parameters) = Contents(signCalls[n].parameters)
        => signCalls[m].result = signCalls[n].result

\* Two calls on maps of equal contents built in different insertion orders.
C4_Witness ==
    /\ Len(signCalls) = 2
    /\ Len(signCalls[1].parameters) = 3
    /\ Contents(signCalls[1].parameters) = Contents(signCalls[2].parameters)
    /\ signCalls[1].parameters # signCalls[2].parameters

(***************************************************************************)
(* Properties of the dispatcher                                            *)
(***************************************************************************)

\* The dispatches that issued an HTTP request.
Posted == {n \in DOMAIN calls : calls[n].dispatch.posted}

\* The system parameters of a dispatch as assembled before signing.
SentSystemParameters(d) == Contents(DelItem(d.params, Sdk.P_SIGN))

RECURSIVE StrToInt(_)
StrToInt(s) ==
    IF s = <<>> THEN 0
    ELSE 10 * StrToInt(SubSeq(s, 1, Len(s) - 1))
         + (CHOOSE v \in 0..9 : IntToStr(v) = <<s[Len(s)]>>)

\* The millisecond in which a clock reading falls.
Millisecond(clock) == CHOOSE ms \in 0..clock :
                          ms * ClockPerMs <= clock /\ clock < (ms + 1) * ClockPerMs

SentTimestamp(d) == GetItem(d.params, Sdk.P_TIMESTAMP).str
SentSignature(d) == GetItem(d.params, Sdk.P_SIGN).hex

\* Two dispatches of the same descriptor with the same fields and token.
SameDescriptor(m, n) ==
    /\ calls[m].req = calls[n].req
    /\ calls[m].authrize = calls[n].authrize
    /\ calls[m].dispatch.data = calls[n].dispatch.data

\* C5 as stated: two dispatches of the same descriptor at two distinct clock
\* readings send two distinct timestamps and two distinct signatures.
C5_DistinctReadingsDistinctTimestamps ==
    \A m, n \in Posted :
        SameDescriptor(m, n) /\ calls[m].clock # calls[n].clock =>
            /\ SentTimestamp(calls[m].dispatch) # SentTimestamp(calls[n].dispatch)
            /\ SentSignature(calls[m].dispatch) # SentSignature(calls[n].dispatch)

\* C5, amended: every dispatch reads the clock afresh: the timestamp it sends
\* is the decimal millisecond of its own clock reading, truncated, and its
\* signature is computed over that timestamp; two dispatches of the same
\* descriptor whose clock readings fall in different milliseconds send
\* distinct timestamps and distinct signatures.
C5_TimestampIsFresh ==
    /\ \A n \in Posted :
          LET d == calls[n].dispatch
          IN  /\ StrToInt(SentTimestamp(d)) = Millisecond(calls[n].clock)
              /\ GetItem(d.sign_parameter, Sdk.P_TIMESTAMP) = StrVal(SentTimestamp(d))
              /\ SentSignature(d).hexdigest.msg =
                    encode(Canonical(GetItem(d.params, Sdk.P_API).str, d.sign_parameter))
    /\ \A m, n \in Posted :
          /\ SameDescriptor(m, n)
          /\ Millisecond(calls[m].clock) # Millisecond(calls[n].clock)
          => /\ SentTimestamp(calls[m].dispatch) # SentTimestamp(calls[n].dispatch)
             /\ SentSignature(calls[m].dispatch) # SentSignature(calls[n].dispatch)

\* The same descriptor dispatched twice, in two different milliseconds.
C5_Witness ==
    /\ Len(calls) = 2
    /\ Posted = {1, 2}
    /\ SameDescriptor(1, 2)
    /\ Millisecond(calls[1].clock) < Millisecond(calls[2].clock)

\* C2: every request dispatched through a client is signed with the app key
\* and the secret that client was constructed with.
C2_SignedWithOwnCredentials ==
    \A n \in Posted :
        calls[n].via = "add_dropshipper" =>
            LET d == calls[n].dispatch
                service == services[calls[n].client]
            IN  /\ GetItem(d.params, Sdk.P_APPKEY) = StrVal(service._key)
                /\ SentSignature(d).hexdigest.key = encode(service._secret)

(***************************************************************************)
(* Properties of the error handling                                        *)
(***************************************************************************)

\* The calls that got an HTTP response, and those whose status is not 2xx.
Answered == {n \in DOMAIN calls : calls[n].net.kind = "response"}
Is2xx(status_code) == 200 <= status_code /\ status_code <= 299
Non2xx == {n \in Answered : ~Is2xx(calls[n].net.status_code)}

\* The calls the provider rejected: a 2xx answer whose JSON object holds an
\* error_response object.
HasErrorResponse(net) ==
    /\ IsJsonBody(net.body)
    /\ IsJDict(net.body.json)
    /\ "error_response" \in DOMAIN net.body.json.jdict
    /\ IsJDict(net.body.json.jdict["error_response"])

Rejected == {n \in Answered : /\ Is2xx(calls[n].net.status_code)
                              /\ HasErrorResponse(calls[n].net)}

RaisedType(n) == calls[n].outcome.raised.type

\* C6: a non-2xx response surfaces as a transport error, never as a provider
\* error and never as a result, and the caller of getResponse or api_request
\* can tell it from a provider rejection by the type of the exception.
C6_TransportErrorBySpecificType ==
    /\ \A n \in Non2xx :
          /\ IsRaise(calls[n].outcome)
          /\ RaisedType(n) # "TopException"
          /\ calls[n].via = "getResponse" => RaisedType(n) = "RequestException"
    /\ \A m \in Non2xx, n \in Rejected :
          /\ calls[m].via = calls[n].via
          /\ calls[n].net.status_code = 200
          => /\ IsRaise(calls[n].outcome)
             /\ RaisedType(m) # RaisedType(n)

\* C7 as stated: for every 2xx status the dispatcher parses the body and
\* raises no transport error; it raises one for exactly the non-2xx statuses.
C7_Every2xxIsParsed ==
    \A n \in Answered :
        calls[n].via = "getResponse" =>
            (/\ IsRaise(calls[n].outcome)
             /\ RaisedType(n) = "RequestException")
            <=> ~Is2xx(calls[n].net.status_code)

\* C7, amended: the dispatcher parses the JSON body for status 200 only; it
\* raises a transport error for exactly the statuses other than 200, the
\* other 2xx statuses included, and a status 200 answer whose body is a JSON
\* object without error_response is returned as parsed.
C7_Only200IsParsed ==
    \A n \in Answered :
        calls[n].via = "getResponse" =>
            /\ (/\ IsRaise(calls[n].outcome)
                /\ RaisedType(n) = "RequestException")
               <=> calls[n].net.status_code # 200
            /\ /\ calls[n].net.status_code = 200
               /\ IsJsonBody(calls[n].net.body)
               /\ IsJDict(calls[n].net.body.json)
               /\ "error_response" \notin DOMAIN calls[n].net.body.json.jdict
               => calls[n].outcome = Return(calls[n].net.body.json)

\* A 201 answer that raised the transport error, after a 200 answer with the
\* same body that was parsed and returned.
C7_Witness ==
    /\ Len(calls) = 2
    /\ calls[1].via = "getResponse" /\ calls[2].via = "getResponse"
    /\ calls[1].net.kind = "response" /\ calls[2].net.kind = "response"
    /\ calls[1].net.status_code = 200 /\ calls[2].net.status_code = 201
    /\ calls[1].net.body = calls[2].net.body
    /\ IsReturn(calls[1].outcome)
    /\ IsRaise(calls[2].outcome)

\* The field of the error_response object of an answer, None if absent.
ErrorField(net, name) ==
    IF name \in DOMAIN net.body.json.jdict["error_response"].jdict
    THEN net.body.json.jdict["error_response"].jdict[name]
    ELSE JNull

\* What C8 promises of an answer: an error_response object is raised as a
\* TopException that carries its four fields and the two host headers, and
\* any other JSON object is returned unchanged.
ProviderErrorRaised(n) ==
    LET net == calls[n].net
        e == calls[n].outcome.raised
    IN  IF HasErrorResponse(net)
        THEN /\ IsRaise(calls[n].outcome)
             /\ e.type = "TopException"
             /\ e.errorcode = ErrorField(net, "code")
             /\ e.message = ErrorField(net, "msg")
             /\ e.subcode = ErrorField(net, "sub_code")
             /\ e.submsg = ErrorField(net, "sub_msg")
             /\ e.application_host =
                   JStr(IF "Application-Host" \in DOMAIN net.headers
                        THEN net.headers["Application-Host"] ELSE "")
             /\ e.service_host =
                   JStr(IF "Location-Host" \in DOMAIN net.headers
                        THEN net.headers["Location-Host"] ELSE "")
        ELSE /\ IsJsonBody(net.body)
             /\ IsJDict(net.body.json)
             /\ "error_response" \notin DOMAIN net.body.json.jdict
             => calls[n].outcome = Return(net.body.json)

\* C8 as stated: for every 2xx response.
C8_ProviderErrorOn2xx ==
    \A n \in Answered :
        /\ calls[n].via = "getResponse"
        /\ Is2xx(calls[n].net.status_code)
        => ProviderErrorRaised(n)

\* C8, amended: for a response of status 200 whose top-level JSON object
\* holds an error_response object the dispatcher raises a TopException whose
\* errorcode, message, subcode and submsg are its code, msg, sub_code and
\* sub_msg (None where absent) and whose hosts are the Application-Host and
\* Location-Host headers (empty where absent); a status 200 JSON object
\* without error_response is returned unchanged.
C8_ProviderErrorOn200 ==
    \A n \in Answered :
        /\ calls[n].via = "getResponse"
        /\ calls[n].net.status_code = 200
        => ProviderErrorRaised(n)

\* A full rejection with both host headers, and a rejection with code and
\* msg only, both raised as TopException.
C8_Witness ==
    /\ Len(calls) = 2
    /\ \A n \in {1, 2} :
          /\ calls[n].via = "getResponse"
          /\ calls[n].net.kind = "response"
          /\ calls[n].net.status_code = 200
          /\ IsRaise(calls[n].outcome)
          /\ RaisedType(n) = "TopException"
    /\ calls[1].net.headers = HostHeaders
    /\ calls[1].outcome.raised.subcode = JStr("isv.sign")
    /\ calls[2].outcome.raised.subcode = JNull

\* The values an exception carries as its arguments.
Carried(e) == {e.args[f] : f \in DOMAIN e.args}

\* C9: when the provider answers with an error_response that holds code and
\* msg, the exception api_request raises carries both.
C9_ExceptionCarriesCodeAndMessage ==
    \A n \in Rejected :
        /\ calls[n].via = "api_request"
        /\ calls[n].net.status_code = 200
        /\ {"code", "msg"} \subseteq
              DOMAIN calls[n].net.body.json.jdict["error_response"].jdict
        => /\ IsRaise(calls[n].outcome)
           /\ ErrorField(calls[n].net, "code") \in Carried(calls[n].outcome.raised)
           /\ ErrorField(calls[n].net, "msg") \in Carried(calls[n].outcome.raised)

\* C10: on a timeout or a connection failure getResponse raises the type it
\* raises for a non-2xx status, RequestException, and no other type.
C10_NetworkFailureIsRequestException ==
    \A n \in DOMAIN calls :
        /\ calls[n].via = "getResponse"
        /\ calls[n].net.kind \in {"Timeout", "ConnectionError"}
        => /\ IsRaise(calls[n].outcome)
           /\ RaisedType(n) = "RequestException"

(***************************************************************************)
(* The unwrapping of envelopes                                             *)
(***************************************************************************)

\* Payloads: two flat ones, and one nested once and twice under result.
Payload ==
    [A |-> JDict("a" :> JInt(1)),
     B |-> JDict("b" :> JInt(2)),
     Nested1 |-> JDict("result" :> JDict("b" :> JInt(2))),
     Nested2 |-> JDict("result" :> JDict("result" :> JDict("b" :> JInt(2))))]

\* The answers of status 200 that api_request unwraps: decoded responses
\* that hold the response key of the dropshipper request, and decoded
\* responses that do not hold it.
UnwrapNets ==
    LET
        \* The error code keys an inner response holds.
        CodeParts ==
            {NoKeys,
             "resp_code" :> JNull,
             "resp_code" :> JStr("0"),
             "resp_code" :> JStr("15"),
             "rsp_code" :> JStr("15"),
             "code" :> JStr("15"),
             "code" :> JInt(15),
             "code" :> JInt(0),
             "code" :> JInt(200),
             "code" :> JStr("200"),
             "code" :> JStr("success"),
             "code" :> JBool(FALSE),
             "code" :> JNull,
             "resp_code" :> JNull @@ "code" :> JStr("15"),
             "rsp_code" :> JNull @@ "code" :> JStr("15"),
             "resp_code" :> JStr("0") @@ "code" :> JStr("15")}
        \* The message keys an inner response holds.
        MsgParts ==
            {NoKeys,
             "msg" :> JStr("boom"),
             "resp_msg" :> JNull @@ "msg" :> JStr("boom"),
             "rsp_msg" :> JStr("rsp") @@ "msg" :> JStr("boom"),
             "resp_msg" :> JStr("resp") @@ "rsp_msg" :> JStr("rsp")}
        \* The payload keys an inner response holds.
        PayloadParts ==
            {NoKeys,
             "resp_result" :> Payload.A,
             "result" :> Payload.B,
             "data" :> JStr("x"),
             "resp_result" :> Payload.A @@ "result" :> Payload.B,
             "result" :> Payload.B @@ "data" :> JStr("x"),
             "resp_result" :> Payload.A @@ "data" :> JStr("x"),
             "resp_result" :> Payload.A @@ "result" :> Payload.B @@ "data" :> JStr("x"),
             "result" :> Payload.Nested1,
             "result" :> Payload.Nested2,
             "resp_result" :> Payload.Nested1,
             "data" :> Payload.Nested2,
             "resp_result" :> JNull @@ "result" :> Payload.B,
             "result" :> JList(<<Payload.A>>),
             "data" :> JDict("result" :> JNull)}
        InnerResponses ==
            {JDict(c @@ m @@ p) :
                c \in CodeParts, m \in MsgParts, p \in PayloadParts}
            \cup {JStr("x"), JNull, JList(<<>>)}
        KeylessResponses ==
            {JDict(NoKeys),
             JDict("bar" :> JDict(NoKeys)),
             JDict("code" :> JStr("500") @@ "msg" :> JStr("down")),
             JDict("code" :> JStr("500")),
             JDict("code" :> JInt(0) @@ "msg" :> JStr("ok")),
             JDict("code" :> JStr("200")),
             JDict("code" :> JNull),
             JDict("code" :> JBool(FALSE)),
             JDict("msg" :> JStr("down"))}
    IN  {NetResponse(200, JsonBody(JDict("ds_dropshpper_add_response" :> i)),
                     NoHeaders) : i \in InnerResponses}
        \cup {NetResponse(200, JsonBody(r), NoHeaders) :
                  r \in KeylessResponses}

\* One api_request on the dropshipper request, for every answer.
NextUnwrap ==
    /\ calls = <<>>
    /\ \E net \in UnwrapNets : ApiRequest(1, None, None, net)

SpecUnwrap == InitDispatch /\ [][NextUnwrap]_vars

(***************************************************************************)
(* Properties of the unwrapping                                            *)
(***************************************************************************)

\* The calls of api_request that got a status 200 JSON object to unwrap.
Unwrapped ==
    {n \in DOMAIN calls :
        /\ calls[n].via = "api_request"
        /\ calls[n].net.kind = "response"
        /\ calls[n].net.status_code = 200
        /\ IsJsonBody(calls[n].net.body)
        /\ IsJDict(calls[n].net.body.json)
        /\ "error_response" \notin DOMAIN calls[n].net.body.json.jdict}

RawOf(n) == calls[n].net.body.json.jdict
KeyOf(n) == ResponseNameOf(requests[calls[n].req].cls)

\* Those whose response key is present and holds an object, and that object.
WithInner == {n \in Unwrapped : /\ KeyOf(n) \in DOMAIN RawOf(n)
                                /\ IsJDict(RawOf(n)[KeyOf(n)])}
Keyless == {n \in Unwrapped : KeyOf(n) \notin DOMAIN RawOf(n)}
InnerOf(n) == RawOf(n)[KeyOf(n)].jdict

\* The first non-None value among the named keys of f, None if there is none.
RECURSIVE FirstNonNone(_, _)
FirstNonNone(f, names) ==
    IF names = <<>> THEN JNull
    ELSE IF Head(names) \in DOMAIN f /\ ~IsJNull(f[Head(names)])
         THEN f[Head(names)]
         ELSE FirstNonNone(f, Tail(names))

CodeKeys == <<"resp_code", "rsp_code", "code">>
MsgKeys == <<"resp_msg", "rsp_msg", "msg">>

\* The five success codes.
IsSuccessCode(c) ==
    \/ c \in {JStr("0"), JStr("200"), JStr("success")}
    \/ c \in {JInt(0), JInt(200)}

\* Some named key of f is present with the value None.
HoldsNone(f, names) ==
    \E i \in DOMAIN names : names[i] \in DOMAIN f /\ IsJNull(f[names[i]])

\* The unwrap failed with the error of an embedded code.
RaisedApiError(n, code) ==
    /\ IsRaise(calls[n].outcome)
    /\ calls[n].outcome.raised.type = "ApiRequestResponseException"
    /\ "code" \in DOMAIN calls[n].outcome.raised.args
    /\ calls[n].outcome.raised.args.code = code

\* C11: when resp_code or rsp_code is present with a null value and a later
\* alternate carries a non-success code, the unwrap fails with the provider
\* error of that later code.
C11_FirstNonNoneCode ==
    \A n \in WithInner :
        LET c == FirstNonNone(InnerOf(n), CodeKeys)
        IN  /\ HoldsNone(InnerOf(n), CodeKeys)
            /\ ~IsJNull(c)
            /\ ~IsSuccessCode(c)
            => RaisedApiError(n, c)

\* C12: an inner code is a success exactly when it is one of the five
\* success codes; for every other inner code the unwrap raises the provider
\* error with that code and with the first non-None of resp_msg, rsp_msg,
\* msg, and returns nothing.  (Stated for inner responses whose code keys
\* hold no null, where the inner code is not in question.)
C12_NonSuccessCodeRaises ==
    \A n \in WithInner :
        LET c == FirstNonNone(InnerOf(n), CodeKeys)
            m == FirstNonNone(InnerOf(n), MsgKeys)
        IN  ~HoldsNone(InnerOf(n), CodeKeys) /\ ~IsJNull(c) =>
              /\ IsSuccessCode(c) <=> IsReturn(calls[n].outcome)
              /\ ~IsSuccessCode(c) =>
                    /\ RaisedApiError(n, c)
                    /\ ~IsJNull(m) => calls[n].outcome.raised.args.msg = m

\* The text of an unwrap failure: which message api_request formatted.
FailureText(n) ==
    IF "fmt" \in DOMAIN calls[n].outcome.raised.args
    THEN calls[n].outcome.raised.args.fmt
    ELSE "str(error)"

ApiErrorText == "API Error {code}: {msg}"
NotFoundText == "Response key '{response_name}' not found. Available: {keys}"

EqualsSuccessCode(c) == IsSuccessCode(c) \/ c = JBool(FALSE)

RECURSIVE AsJson(_)
AsJson(v) ==
    IF DOMAIN v = {"ns"}
    THEN JDict([k \in DOMAIN v.ns |-> AsJson(v.ns[k])])
    ELSE IF IsJList(v)
    THEN JList([i \in DOMAIN v.jlist |-> AsJson(v.jlist[i])])
    ELSE v

\* The calls of api_request that returned a payload of an inner response.
Delivered == {n \in WithInner : IsReturn(calls[n].outcome)}

PayloadKeys == <<"resp_result", "result", "data">>

\* The value of the first present payload key, the whole object if none.
FirstPresent(f) ==
    IF \E i \in DOMAIN PayloadKeys : PayloadKeys[i] \in DOMAIN f
    THEN LET i == CHOOSE i \in DOMAIN PayloadKeys :
                    /\ PayloadKeys[i] \in DOMAIN f
                    /\ \A j \in 1..(i - 1) : PayloadKeys[j] \notin DOMAIN f
         IN  f[PayloadKeys[i]]
    ELSE JDict(f)

HasNestedResult(p) == IsJDict(p) /\ "result" \in DOMAIN p.jdict

\* C14: the payload comes from the first present of resp_result, result,
\* data, else from the inner object itself: what is returned is that value,
\* or the result nested in it, and never the value of a later key.
C14_PayloadPrecedence ==
    \A n \in Delivered :
        LET p == FirstPresent(InnerOf(n))
        IN  \/ AsJson(calls[n].outcome.returned) = p
            \/ /\ HasNestedResult(p)
               /\ AsJson(calls[n].outcome.returned) = p.jdict["result"]

\* resp_result, result and data together: resp_result was returned.
C14_Witness ==
    /\ Len(calls) = 1
    /\ 1 \in Delivered
    /\ {"resp_result", "result", "data"} \subseteq DOMAIN InnerOf(1)
    /\ AsJson(calls[1].outcome.returned) = Payload.A
    /\ InnerOf(1)["result"] = Payload.B

\* C15: a payload that is a mapping with a nested result key is replaced by
\* that result, once; any other payload is returned unchanged.
C15_FlattenOnce ==
    \A n \in Delivered :
        LET p == ResultObj(RawOf(n)[KeyOf(n)])
        IN  AsJson(calls[n].outcome.returned) =
               (IF HasNestedResult(p) THEN p.jdict["result"] ELSE p)

\* {"result": {"result": {"result": {"b": 2}}}} gave {"result": {"b": 2}}.
C15_Witness ==
    /\ Len(calls) = 1
    /\ 1 \in Delivered
    /\ DOMAIN InnerOf(1) = {"result"}
    /\ InnerOf(1)["result"] = Payload.Nested2
    /\ AsJson(calls[1].outcome.returned) = Payload.Nested1

(***************************************************************************)
(* Inputs and properties of the binder                                     *)
(***************************************************************************)

\* The class a field type refers to, "" if it refers to none.
ReferredClass(t) ==
    IF DOMAIN t = {"class"} THEN (IF t.class \in ModelClasses THEN t.class ELSE "")
    ELSE IF DOMAIN t = {"forward"} THEN t.forward
    ELSE IF "arg" \in DOMAIN t THEN
         (IF DOMAIN t.arg = {"forward"} THEN t.arg.forward
          ELSE IF IsModelType(t.arg) THEN t.arg.class ELSE "")
    ELSE ""

\* The payloads handed to from_dict: values that are not mappings, the empty
\* mapping, a mapping of unknown keys, and every field alone and together
\* with an unknown key.
BindPayloads(cls) ==
    LET fs == dataclass_fields(cls)
        \* The values a payload holds under the name of a field of the
        \* given type; for a field that refers to a class, a payload of the
        \* class with its first field set.
        ValuesFor(t) ==
            LET SampleOf(c) ==
                    JDict(dataclass_fields(c)[1].name :> JStr("v"))
            IN  {JNull, JStr("s"), JInt(7), JDict(NoKeys), JDict("zz" :> JInt(1)),
                 JList(<<>>), JList(<<JDict("zz" :> JInt(1)), JInt(5)>>)}
                \cup (IF ReferredClass(t) = "" THEN {}
                      ELSE {SampleOf(ReferredClass(t)),
                            JList(<<SampleOf(ReferredClass(t))>>)})
    IN  {JNull, JStr("s"), JInt(0), JList(<<JInt(1)>>), JDict(NoKeys),
         JDict("unknown" :> JInt(1))}
        \cup UNION {UNION {{JDict(fs[i].name :> v),
                            JDict(fs[i].name :> v @@ "unknown" :> JInt(1))} :
                              v \in ValuesFor(fs[i].type)} :
                       i \in DOMAIN fs}

\* cls.from_dict(data), called once.
FromDict(cls, data) ==
    /\ calls' = Remember([via |-> "from_dict", cls |-> cls, data |-> data,
                          outcome |-> LET r == from_dict(cls, data)
                                      IN  IF IsRaise(r) THEN r ELSE Return(r)])
    /\ UNCHANGED <<signCalls, defaultAppInfo, services, requests, now>>

NextBind ==
    /\ calls = <<>>
    /\ \E cls \in ModelClasses : \E data \in BindPayloads(cls) :
          FromDict(cls, data)

SpecBind == Init /\ [][NextBind]_vars

(***************************************************************************)
(* Properties of the binder                                                *)
(***************************************************************************)

Bound == {n \in DOMAIN calls : calls[n].via = "from_dict"}

IsInstanceOf(v, cls) == DOMAIN v = {"cls", "attrs"} /\ v.cls = cls

\* The declared default of a field: the value, or what the factory makes.
DeclaredDefault(cls, f) ==
    LET d == FieldOf(cls, f).default
    IN  IF "value" \in DOMAIN d THEN d.value
        ELSE IF d.factory = "list" THEN JList(<<>>)
        ELSE IF d.factory = "dict" THEN JDict(NoKeys)
        ELSE Construct(d.factory, NoKeys)

\* The payload of the call holds the field.
Holds(n, f) == IsJDict(calls[n].data) /\ f \in DOMAIN calls[n].data.jdict

\* C16: from_dict never raises: it returns an instance of the class that has
\* exactly the declared fields (unknown keys are dropped), and every field
\* the payload does not hold, every field if the payload is not a mapping or
\* is empty, has its declared default.
C16_BinderIsLenient ==
    \A n \in Bound :
        /\ IsReturn(calls[n].outcome)
        /\ IsInstanceOf(calls[n].outcome.returned, calls[n].cls)
        /\ DOMAIN calls[n].outcome.returned.attrs = FieldNames(calls[n].cls)
        /\ \A f \in FieldNames(calls[n].cls) :
              ~Holds(n, f) =>
                  calls[n].outcome.returned.attrs[f] =
                      DeclaredDefault(calls[n].cls, f)

\* A payload of an unknown key and of one field was bound.
C16_Witness ==
    /\ Len(calls) = 1
    /\ 1 \in Bound
    /\ calls[1].cls = "DsProductGetResult"
    /\ Holds(1, "unknown")
    /\ Holds(1, "has_whole_sale")
    /\ IsReturn(calls[1].outcome)
    /\ calls[1].outcome.returned.attrs["has_whole_sale"] = JStr("s")

\* C17: in a field declared as a list of a bindable shape, that of
\* DsCategory.children included, every element of the payload's list is
\* bound into an instance of the shape.
C17_ListElementsAreBound ==
    \A n \in Bound : \A f \in FieldNames(calls[n].cls) :
        LET t == FieldOf(calls[n].cls, f).type
        IN  /\ IsListType(t)
            /\ ReferredClass(t) # ""
            /\ Holds(n, f)
            /\ IsJList(calls[n].data.jdict[f])
            => /\ IsReturn(calls[n].outcome)
               /\ LET bound == calls[n].outcome.returned.attrs[f]
                  IN  /\ IsJList(bound)
                      /\ Len(bound.jlist) = Len(calls[n].data.jdict[f].jlist)
                      /\ \A i \in DOMAIN bound.jlist :
                            IsInstanceOf(bound.jlist[i], ReferredClass(t))

\* The field is declared as a bindable shape or as an optional one.
IsShapeType(t) ==
    \/ IsModelType(t)
    \/ /\ "origin" \in DOMAIN t
       /\ t.origin = "Union"
       /\ IsModelType(t.arg)

\* C18: a field declared as a bindable shape, optional or not, holds the
\* bound sub-mapping, and its declared default when the key is absent or
\* its value is not a mapping.
C18_NestedShapeIsBound ==
    \A n \in Bound : \A f \in FieldNames(calls[n].cls) :
        LET t == FieldOf(calls[n].cls, f).type
        IN  IsShapeType(t) =>
              /\ IsReturn(calls[n].outcome)
              /\ IF Holds(n, f) /\ IsJDict(calls[n].data.jdict[f])
                 THEN IsInstanceOf(calls[n].outcome.returned.attrs[f],
                                   ReferredClass(t))
                 ELSE calls[n].outcome.returned.attrs[f] =
                          DeclaredDefault(calls[n].cls, f)

(***************************************************************************)
(* The image search of the facade: services/dropshipping.py                *)
(***************************************************************************)

\* DropshippingService.ds_image_search(image_bytes, sort, target_currency=
\* "USD", target_language="en") of client c.
DsImageSearch(c, image_bytes, sort, net) ==
    /\ ~IsNone(services[c])
    /\ LET request ==
               _prepare_request(
                   Request_init("AliexpressDsImageSearchV2Request", defaultAppInfo),
                   << <<DsImageSearchV2.image_file_bytes, image_bytes>>,
                      <<DsImageSearchV2.sort, sort>>,
                      <<DsImageSearchV2.search_type, IntVal(0)>>,
                      <<DsImageSearchV2.limit, IntVal(20)>>,
                      <<DsImageSearchV2.target_currency, StrVal(<<"U", "S", "D">>)>>,
                      <<DsImageSearchV2.target_language, StrVal(<<"e", "n">>)>> >>)
           session == services[c]._token
       IN  calls' = Remember(
               CallRecord("ds_image_search", c, 0, session, net,
                   api_request(request, "aliexpress_ds_image_search_v2_response",
                               None, session, now, net))
               @@ [image_bytes |-> image_bytes])
    /\ UNCHANGED <<signCalls, defaultAppInfo, services, requests, now>>

\* Client 1 searches by image as time passes.
NextMultipart ==
    \/ \E i \in {BytesVal(<<137, 80>>), BytesVal(<<255, 216>>)},
          o \in {StrVal(<<"d", "e", "f", "a", "u", "l", "t">>),
                 StrVal(<<"s", "a", "l", "e", "s">>)},
          net \in {NetResponse(200,
                      SuccessBody("aliexpress_ds_image_search_v2_response"),
                      NoHeaders),
                   NetTimeout} :
          DsImageSearch(1, i, o, net)
    \/ Tick

SpecMultipart == InitDispatch /\ [][NextMultipart]_vars

(***************************************************************************)
(* Properties of the request sent                                          *)
(***************************************************************************)

\* C19: every request the library dispatches goes to the fixed provider host
\* and REST path over https, for every request class created with its
\* default constructor arguments.
C19_DispatchedOverHttps ==
    \A n \in Posted :
        calls[n].dispatch.url =
            Text.https \o Text.colon_slashes \o DefaultDomain \o Sdk.N_REST

\* C20: the image search of the facade sends the image: the files of the
\* request hold the declared multipart field with the bytes the caller gave.
C20_MultipartFieldIsSent ==
    \A n \in Posted :
        calls[n].via = "ds_image_search" =>
            /\ HasKey(calls[n].dispatch.files, DsImageSearchV2.image_file_bytes)
            /\ GetItem(calls[n].dispatch.files, DsImageSearchV2.image_file_bytes)[2] =
                  calls[n].image_bytes

(***************************************************************************)
(* The parameters of a dispatch: sdk/api/base.py                           *)
(***************************************************************************)

\* Client 1 has constructed its service; user code holds one descriptor of
\* each class of sdk/api/rest that the model describes field by field.
InitParameters ==
    /\ signCalls = <<>>
    /\ defaultAppInfo = setDefaultAppInfo(ClientKey(1), ClientSecret(1))
    /\ services = [c \in Clients |->
          IF c = 1 THEN BaseService_init(ClientKey(1), ClientSecret(1), None)
          ELSE None]
    /\ requests =
          <<Request_init("DsDropshpperAddRequest", defaultAppInfo),
            Request_init("AliexpressDsFreightQueryRequest", defaultAppInfo),
            Request_init("AliexpressDsImageSearchV2Request", defaultAppInfo)>>
    /\ now = 0
    /\ calls = <<>>

\* User code sets and clears fields, then dispatches one descriptor, with or
\* without a token.
NextParameters ==
    \/ /\ calls = <<>>
       /\ \E r \in DOMAIN requests,
             f \in {<<DsDropshpperAdd.email, StrVal(<<"a", "@", "b">>)>>,
                    <<DsDropshpperAdd.email, None>>,
                    <<DsFreightQuery.query_delivery_req, StrVal(<<"{", "}">>)>>,
                    <<DsFreightQuery.locale, StrVal(<<"e", "n">>)>>,
                    <<DsImageSearchV2.limit, IntVal(20)>>,
                    <<DsImageSearchV2.image_file_bytes,
                      FileItem(<<"f">>, BytesVal(<<137, 80>>))>>,
                    <<DsImageSearchV2.image_file_bytes, BytesVal(<<255, 216>>)>>} :
             SetField(r, f[1], f[2])
    \/ /\ calls = <<>>
       /\ \E r \in DOMAIN requests, t \in {None, StrVal(<<"t", "k">>)},
             net \in OkNets :
             GetResponse(r, t, net)

SpecParameters == InitParameters /\ [][NextParameters]_vars

\* The declared fields of a descriptor that hold a value and are no
\* multipart field.
SentFields(self) ==
    {k \in Contents(ClassFields(self.cls)) :
        /\ ~IsNone(GetItem(self.dict, k))
        /\ \A i \in DOMAIN getMultipartParas(self) : getMultipartParas(self)[i] # k}

\* The name a field travels under.
WireName(self, k) ==
    IF HasKey(getTranslateParas(self), k)
    THEN GetItem(getTranslateParas(self), k) ELSE k

\* C21: the application parameters of a dispatch are exactly the non-None,
\* non-multipart fields of the descriptor, each under its wire name; a
\* translated internal name no longer appears; a field that is None is in
\* neither the signed parameters nor the request.
C21_ApplicationParameters ==
    \A n \in Posted :
        calls[n].via = "getResponse" =>
            LET self == requests[calls[n].req]
                d == calls[n].dispatch
            IN  /\ Contents(d.data) =
                      {<<WireName(self, k), GetItem(self.dict, k)>> :
                          k \in SentFields(self)}
                /\ Len(d.data) = Cardinality(SentFields(self))
                /\ \A k \in Contents(ClassFields(self.cls)) :
                      /\ HasKey(getTranslateParas(self), k) => ~HasKey(d.data, k)
                      /\ IsNone(GetItem(self.dict, k)) =>
                            /\ ~HasKey(d.sign_parameter, WireName(self, k))
                            /\ ~HasKey(d.sign_parameter, k)
                            /\ ~HasKey(d.data, WireName(self, k))
                            /\ ~HasKey(d.params, WireName(self, k))
                            /\ ~HasKey(d.files, k)
                /\ Contents(d.data) \subseteq Contents(d.sign_parameter)

\* A freight query was dispatched with its translated field set and its
\* locale None.
C21_Witness ==
    \E n \in Posted :
        /\ calls[n].via = "getResponse"
        /\ requests[calls[n].req].cls = "AliexpressDsFreightQueryRequest"
        /\ HasKey(calls[n].dispatch.data, DsFreightQuery.queryDeliveryReq)
        /\ IsNone(GetItem(requests[calls[n].req].dict, DsFreightQuery.locale))

\* The names of the system parameters of a dispatch made with authrize.
SystemNames(authrize) ==
    {Sdk.P_FORMAT, Sdk.P_APPKEY, Sdk.P_SIGN_METHOD, Sdk.P_TIMESTAMP, Sdk.P_PARTNER_ID, Sdk.P_API, Sdk.P_SIGN}
    \cup (IF IsNone(authrize) THEN {} ELSE {Sdk.P_ACCESS_TOKEN})

\* C22: in every dispatched request the system parameters (format, app_key,
\* sign_method, timestamp, partner_id, method, sign and, if a token was
\* supplied, access_token) are the query parameters and the application
\* parameters are the body: no application parameter is in the query and no
\* system parameter is in the body.
C22_QueryAndBody ==
    \A n \in Posted :
        calls[n].via = "getResponse" =>
            LET self == requests[calls[n].req]
                d == calls[n].dispatch
            IN  /\ Contents(keys(d.params)) = SystemNames(calls[n].authrize)
                /\ Len(d.params) = Cardinality(SystemNames(calls[n].authrize))
                /\ ~IsNone(calls[n].authrize) =>
                      GetItem(d.params, Sdk.P_ACCESS_TOKEN) = calls[n].authrize
                /\ Contents(keys(d.data)) =
                      {WireName(self, k) : k \in SentFields(self)}
                /\ Contents(keys(d.data)) \cap Contents(keys(d.params)) = {}

\* A descriptor with a field set was dispatched with a token.
C22_Witness ==
    \E n \in Posted :
        /\ calls[n].via = "getResponse"
        /\ ~IsNone(calls[n].authrize)
        /\ calls[n].dispatch.data # <<>>
        /\ HasKey(calls[n].dispatch.params, Sdk.P_SIGN)

(***************************************************************************)
(* Round trips: helpers/requests.py and services/oauth.py                  *)
(***************************************************************************)

\* OAuthService._oauth_request(code, uuid, refresh_token) of client c;
\* generate_access_token and refresh_access_token pass their arguments on.
OAuthRequest(c, code, uuid, refresh_token, net, json_error_is_request_exception) ==
    /\ ~IsNone(services[c])
    /\ \E result \in {_oauth_request(services[c], code, uuid, refresh_token,
                                      now, net, json_error_is_request_exception)} :
           calls' = Remember(
               [via |-> "_oauth_request", client |-> c, code |-> code,
                uuid |-> uuid, refresh_token |-> refresh_token,
                clock |-> now, net |-> net, posts |-> result.posts,
                api_path |-> result.api_path, secret |-> result.secret,
                dispatches |-> <<>>, outcome |-> result.outcome])
    /\ UNCHANGED <<signCalls, defaultAppInfo, services, requests, now>>

\* One call: api_request on a descriptor, or a token request, meets every
\* outcome of the HTTP call, and api_request every shape of the decoded
\* response.
NextRoundTrip ==
    LET OAuthNets ==
    {NetTimeout, NetConnectionError, NetResponse(500, HtmlBody, NoHeaders),
     NetResponse(200, HtmlBody, NoHeaders),
     NetResponse(200, ErrorBodyFull, NoHeaders),
     NetResponse(200, JsonBody(JNull), NoHeaders),
     NetResponse(200, JsonBody(JDict([access_token |-> JStr("at")])), NoHeaders),
     NetResponse(200, JsonBody(JDict([token_response |->
         JDict([access_token |-> JStr("at")])])), NoHeaders)}
    IN
    \/ /\ calls = <<>>
       /\ \E r \in DOMAIN requests,
             model_class \in {None, TClass("DsTextSearchResponse")},
             session \in {None, StrVal(<<"t", "k">>)},
             net \in HttpNets :
             ApiRequest(r, model_class, session, net)
    \/ /\ calls = <<>>
       /\ \E code \in {None, StrVal(<<"c">>)},
             uuid \in {None, StrVal(<<>>), StrVal(<<"u">>)},
             refresh_token \in {None, StrVal(<<>>), StrVal(<<"r">>)},
             net \in OAuthNets, lib \in BOOLEAN :
             OAuthRequest(1, code, uuid, refresh_token, net, lib)
    \/ /\ calls = <<>>
       /\ now = 0
       /\ \E model_class \in {None, TClass("DsTextSearchResponse")},
             net \in UnwrapNets :
             ApiRequest(1, model_class, None, net)
    \/ Tick

SpecRoundTrip == InitDispatch /\ [][NextRoundTrip]_vars

\* The POSTs issued during call n.
PostsOf(n) ==
    IF calls[n].via = "_oauth_request" THEN calls[n].posts
    ELSE SelectSeq(calls[n].dispatches, LAMBDA d : d.posted)

\* C23: each call of api_request and each token request issues at most one
\* POST; a call that fails has issued no further POST before it raises.
C23_SingleRoundTrip ==
    \A n \in DOMAIN calls :
        /\ Len(PostsOf(n)) <= 1
        /\ IsRaise(calls[n].outcome) => Len(PostsOf(n)) <= 1

\* A call failed after its one POST: api_request on a timeout, or a token
\* request on an answer of the server.
C23_Witness ==
    \E n \in DOMAIN calls :
        /\ IsRaise(calls[n].outcome)
        /\ Len(PostsOf(n)) = 1
        /\ \/ calls[n].via = "api_request" /\ calls[n].net = NetTimeout
           \/ calls[n].via = "_oauth_request" /\ calls[n].net.kind = "response"

\* C28: the signature a token request sends equals sign(secret, api_path,
\* params) over the parameters it sends other than sign, for every code,
\* uuid and refresh_token; api_path is '/auth/token/refresh' exactly when a
\* non-empty refresh_token is given and '/auth/token/create' otherwise.
C28_OAuthUsesSign ==
    \A n \in DOMAIN calls :
        calls[n].via = "_oauth_request" =>
            LET post == calls[n].posts[1]
                refresh == NonEmpty(calls[n].refresh_token)
                api_path == IF refresh THEN OAuth.refresh_path
                            ELSE OAuth.create_path
            IN  /\ calls[n].api_path = api_path
                /\ post.url = IF refresh THEN OAuth.refresh_url
                              ELSE OAuth.create_url
                /\ HasKey(post.data, OAuth.refresh_token) <=> refresh
                /\ GetItem(post.data, Sdk.P_SIGN) =
                      [hex |-> sign(ClientSecret(calls[n].client), api_path,
                                    DelItem(post.data, Sdk.P_SIGN))]

\* A refresh request and a create request with a uuid were signed and sent.
C28_Witness ==
    \E n \in DOMAIN calls :
        /\ calls[n].via = "_oauth_request"
        /\ HasKey(calls[n].posts[1].data, Sdk.P_SIGN)
        /\ \/ HasKey(calls[n].posts[1].data, OAuth.refresh_token)
           \/ HasKey(calls[n].posts[1].data, OAuth.uuid)

(***************************************************************************)
(* The facade in use                                                       *)
(***************************************************************************)

\* The record of the latest call of a facade method, with the cache before
\* and after it.
FacadeRecord(via, c, args, net, result) ==
    [via |-> via, client |-> c, args |-> args, clock |-> now, net |-> net,
     cache_before |-> IF "categories" \in DOMAIN services[c]
                      THEN services[c].categories ELSE None,
     cache_after |-> IF "categories" \in DOMAIN result.self
                     THEN result.self.categories ELSE None,
     dispatches |-> result.dispatches, outcome |-> result.outcome]

\* CommonService.get_categories() of client c.
GetCategories(c, net) ==
    /\ "categories" \in DOMAIN services[c]
    /\ \E result \in {get_categories(services[c], defaultAppInfo, now, net)} :
           /\ services' = [services EXCEPT ![c] = result.self]
           /\ calls' = <<FacadeRecord("get_categories", c, <<>>, net, result)>>
    /\ UNCHANGED <<signCalls, defaultAppInfo, requests, now>>

\* CommonService.get_parent_categories(use_cache) of client c.
GetParentCategories(c, use_cache, net) ==
    /\ "categories" \in DOMAIN services[c]
    /\ \E result \in {get_parent_categories(services[c], use_cache,
                                              defaultAppInfo, now, net)} :
           /\ services' = [services EXCEPT ![c] = result.self]
           /\ calls' = <<FacadeRecord("get_parent_categories", c,
                                      [use_cache |-> use_cache], net, result)>>
    /\ UNCHANGED <<signCalls, defaultAppInfo, requests, now>>

\* CommonService.get_child_categories(parent_category_id, use_cache) of
\* client c.
GetChildCategories(c, parent_category_id, use_cache, net) ==
    /\ "categories" \in DOMAIN services[c]
    /\ \E result \in {get_child_categories(services[c], parent_category_id,
                                             use_cache, defaultAppInfo, now, net)} :
           /\ services' = [services EXCEPT ![c] = result.self]
           /\ calls' = <<FacadeRecord("get_child_categories", c,
                                      [use_cache |-> use_cache,
                                       parent_category_id |-> parent_category_id],
                                      net, result)>>
    /\ UNCHANGED <<signCalls, defaultAppInfo, requests, now>>

\* CommonService.get_products_details(product_ids) of client c.
GetProductsDetails(c, product_ids, net) ==
    /\ "categories" \in DOMAIN services[c]
    /\ \E result \in {get_products_details(services[c], product_ids, None,
                                             None, defaultAppInfo, now, net)} :
           calls' = <<FacadeRecord("get_products_details", c,
                                   [product_ids |-> product_ids], net,
                                   result @@ [self |-> services[c]])>>
    /\ UNCHANGED <<signCalls, defaultAppInfo, services, requests, now>>

\* DropshippingService.text_search_ds(keywords, country, locale=locale) of
\* client c.
TextSearchDs(c, keywords, country, locale, net) ==
    /\ ~IsNone(services[c])
    /\ "categories" \notin DOMAIN services[c]
    /\ \E result \in {text_search_ds(services[c], keywords, country, locale,
                                       defaultAppInfo, now, net)} :
           calls' = <<FacadeRecord("text_search_ds", c,
                                   [keywords |-> keywords, country |-> country,
                                    locale |-> locale], net,
                                   result @@ [self |-> services[c]])>>
    /\ UNCHANGED <<signCalls, defaultAppInfo, services, requests, now>>

\* _prepare_request(AliexpressLogisticsBuyerFreightCalculateRequest(),
\* country_code=country_code, locale=locale, product_list=product_list,
\* web_site=web_site) of client c, as src/test_locale_fix.py calls it.
PrepareRequest(c, country_code, locale, product_list, web_site) ==
    /\ ~IsNone(services[c])
    /\ LET request ==
               _prepare_request(
                   Request_init("AliexpressLogisticsBuyerFreightCalculateRequest",
                                defaultAppInfo),
                   << <<LogisticsBuyerFreightCalculate.country_code, country_code>>,
                      <<LogisticsBuyerFreightCalculate.locale, locale>>,
                      <<LogisticsBuyerFreightCalculate.product_list, product_list>>,
                      <<LogisticsBuyerFreightCalculate.web_site, web_site>> >>)
       IN  calls' = <<FacadeRecord("_prepare_request", c,
                                   [country_code |-> country_code,
                                    locale |-> locale], None,
                                   [self |-> services[c], dispatches |-> <<>>,
                                    outcome |-> Return(request)])>>
    /\ UNCHANGED <<signCalls, defaultAppInfo, services, requests, now>>

\* Client 1 has constructed a CommonService, then client 2 a
\* DropshippingService with a token.
InitFacade ==
    /\ signCalls = <<>>
    /\ defaultAppInfo = setDefaultAppInfo(ClientKey(2), ClientSecret(2))
    /\ services = [c \in Clients |->
          IF c = 1 THEN CommonService_init(ClientKey(1), ClientSecret(1), None)
          ELSE BaseService_init(ClientKey(2), ClientSecret(2),
                                StrVal(<<"t", "k">>))]
    /\ requests = <<>>
    /\ now = 0
    /\ calls = <<>>

\* The clients call the facade, and the provider answers: with a transport
\* failure, a rejection, an error code inside the envelope, or an envelope
\* that holds a payload in one of the places the unwrapper looks at.
NextFacade ==
    LET Envelopes(response_name, payload) ==
            {NetResponse(200, JsonBody(JDict(response_name :> inner)), NoHeaders) :
                inner \in {JDict("resp_result" :>
                               JDict("resp_code" :> JInt(200) @@ "result" :> payload)),
                           JDict("result" :> payload),
                           JDict("data" :> payload)}}
        Failures(response_name) ==
            {NetTimeout, NetResponse(200, ErrorBodyFull, NoHeaders),
             NetResponse(200, JsonBody(JDict(response_name :>
                 JDict([resp_code |-> JInt(405), resp_msg |-> JStr("limit")]))),
                 NoHeaders)}
        NoPayload(response_name) ==
            {NetResponse(200, JsonBody(JDict(response_name :>
                 JDict([resp_code |-> JInt(200)]))), NoHeaders)}
        Nets(response_name, payloads) ==
            Failures(response_name) \cup NoPayload(response_name)
            \cup UNION {Envelopes(response_name, p) : p \in payloads}
        CategoryNets ==
            Nets("aliexpress_affiliate_category_get_response",
                 {JDict([category_id |-> JInt(5), category_name |-> JStr("Toys")]),
                  JDict(NoKeys), JList(<<>>)})
        ProductNets ==
            Nets("aliexpress_affiliate_productdetail_get_response",
                 {JDict([product_id |-> JInt(7)]), JDict(NoKeys), JNull})
        SearchNets ==
            Nets("aliexpress_ds_text_search_response",
                 {JDict([totalCount |-> JInt(n), products |-> JList(<<>>)]) :
                     n \in {0, 5}}
                 \cup {JDict([data |-> JDict([totalCount |-> JInt(n),
                                              products |-> JList(<<>>)])]) :
                          n \in {0, 5}})
    IN  \/ \E net \in CategoryNets : GetCategories(1, net)
        \/ \E use_cache \in BOOLEAN, net \in CategoryNets :
              GetParentCategories(1, use_cache, net)
        \/ \E use_cache \in BOOLEAN, net \in CategoryNets :
              GetChildCategories(1, 5, use_cache, net)
        \/ \E net \in ProductNets :
              GetProductsDetails(1, StrVal(<<"7">>), net)
        \/ \E locale \in {None, StrVal(<<"f", "r", "_", "F", "R">>)},
              net \in SearchNets :
              TextSearchDs(2, StrVal(<<"t", "o", "y">>), StrVal(<<"f", "r">>),
                           locale, net)
        \/ \E locale \in {None, StrVal(<<"e", "n", "_", "U", "S">>)} :
              PrepareRequest(2, StrVal(<<"U", "S">>), locale,
                             StrVal(<<"[", "]">>),
                             StrVal(<<"a", "l", "i">>))

SpecFacade == InitFacade /\ [][NextFacade]_vars

(***************************************************************************)
(* Properties of the category cache                                        *)
(***************************************************************************)

\* The calls that look categories up.
Lookups ==
    {n \in DOMAIN calls :
        calls[n].via \in {"get_parent_categories", "get_child_categories"}}

\* What the lookup of call n makes of the categories.
Filtered(n, categories) ==
    IF calls[n].via = "get_parent_categories"
    THEN filter_parent_categories(categories)
    ELSE filter_child_categories(categories, calls[n].args.parent_category_id)

\* C24: a lookup with use_cache and a non-empty cache issues no request and
\* filters the cached categories; a lookup without use_cache, or with an
\* empty cache, issues exactly one category fetch and, when the fetch
\* succeeds, filters the categories just fetched.
C24_ReadThenRefresh ==
    \A n \in Lookups :
        IF calls[n].args.use_cache /\ bool(calls[n].cache_before)
        THEN /\ calls[n].dispatches = <<>>
             /\ calls[n].cache_after = calls[n].cache_before
             /\ calls[n].outcome = Return(Filtered(n, calls[n].cache_before))
        ELSE /\ Len(calls[n].dispatches) = 1
             /\ calls[n].dispatches[1].posted
             /\ calls[n].dispatches[1].data = <<>>
             /\ IsReturn(calls[n].outcome) =>
                   /\ calls[n].outcome = Return(Filtered(n, calls[n].cache_after))
                   /\ IsReturn(calls[n].dispatches[1].outcome)

\* A lookup was answered from a cache that an earlier call filled, and a
\* lookup with a filled cache fetched again because use_cache was off.
C24_Witness ==
    \E n \in Lookups :
        /\ bool(calls[n].cache_before)
        /\ IsReturn(calls[n].outcome)
        /\ calls[n].args.use_cache
        /\ calls[n].dispatches = <<>>

\* The calls whose fetch of the categories came back from the provider.
Refreshes ==
    {n \in DOMAIN calls :
        /\ calls[n].via \in {"get_categories", "get_parent_categories",
                             "get_child_categories"}
        /\ calls[n].dispatches # <<>>}

ResponseKey(n) ==
    IF calls[n].via = "get_products_details"
    THEN "aliexpress_affiliate_productdetail_get_response"
    ELSE IF calls[n].via = "text_search_ds"
    THEN "aliexpress_ds_text_search_response"
    ELSE "aliexpress_affiliate_category_get_response"

\* The calls the provider answered with an envelope that the unwrapper
\* accepts: the response key is there and no error code is in it.
Accepted ==
    {n \in DOMAIN calls :
        /\ calls[n].via \in {"get_products_details", "get_categories",
                             "text_search_ds"}
        /\ calls[n].dispatches # <<>>
        /\ IsReturn(calls[n].dispatches[1].outcome)
        /\ IsReturn(Unwrap(calls[n].dispatches[1].outcome.returned,
                           ResponseKey(n), None))}

\* The payload of the envelope of call n, as the unwrapper extracts it.
PayloadOf(n) ==
    Flatten(ResultObj(calls[n].dispatches[1].outcome.returned.jdict[ResponseKey(n)]))

\* The envelope of call n holds no records: no payload key, or a payload
\* that is empty or no mapping.
NoRecords(n) ==
    \/ DOMAIN calls[n].dispatches[1].outcome.returned.jdict[ResponseKey(n)].jdict
           \cap {"resp_result", "result", "data"} = {}
    \/ ~IsJDict(PayloadOf(n))
    \/ DOMAIN PayloadOf(n).jdict = {}

\* C25: get_products_details raises ProductsNotFoundException and
\* get_categories raises CategoriesNotFoundException, the cache left as it
\* was, whenever the successful response holds no records.
C25_NotFoundOnNoRecords ==
    \A n \in Accepted :
        calls[n].via \in {"get_products_details", "get_categories"}
        /\ NoRecords(n) =>
            /\ calls[n].outcome =
                   Raise(BuiltinException(
                       IF calls[n].via = "get_categories"
                       THEN "CategoriesNotFoundException"
                       ELSE "ProductsNotFoundException"))
            /\ calls[n].cache_after = calls[n].cache_before

\* The totalCount the payload of call n reports, 0 when it reports none.
TotalCount(n) ==
    LET Count(payload) ==
            IF IsJDict(payload) /\ "totalCount" \in DOMAIN payload.jdict
            THEN payload.jdict["totalCount"].jint
            ELSE 0
        Reported(payload) ==
            IF IsJDict(payload) /\ "data" \in DOMAIN payload.jdict
            THEN Count(payload.jdict["data"])
            ELSE Count(payload)
    IN  Reported(PayloadOf(n))

\* C26: text_search_ds returns a DsTextSearchResponse when the accepted
\* envelope reports totalCount > 0, and raises ProductsNotFoundException,
\* and nothing else, exactly when it reports none.
C26_SearchResults ==
    \A n \in Accepted :
        calls[n].via = "text_search_ds" =>
            IF TotalCount(n) > 0
            THEN /\ IsReturn(calls[n].outcome)
                 /\ calls[n].outcome.returned.cls = "DsTextSearchResponse"
            ELSE calls[n].outcome =
                     Raise(BuiltinException("ProductsNotFoundException"))

\* C27: a request with a locale field that was prepared with locale=None has
\* a non-empty locale.
C27_LocaleFilled ==
    \A n \in DOMAIN calls :
        calls[n].via = "_prepare_request" /\ IsNone(calls[n].args.locale) =>
            NonEmpty(GetItem(calls[n].outcome.returned.dict,
                             LogisticsBuyerFreightCalculate.locale))

(***************************************************************************)
(* Properties of api_request                                               *)
(***************************************************************************)

====
